---- MODULE Spec2Model ----
(***************************************************************************)
(* jcanim / jcparallax: the animation timer (TransitionInterval), the       *)
(* capability detection that selects its mode and the Viewport that        *)
(* creates it.                                                              *)
(*                                                                         *)
(* The host is single threaded: every action below is one task of the      *)
(* host's callback queue (a public method call, a timeout firing, a        *)
(* transition-end event dispatched to one listener) run to completion.     *)
(***************************************************************************)
EXTENDS Integers, FiniteSets, Sequences, TLC

\* ------------------------------------------------------------------------
\* Bounds of the model
\* ------------------------------------------------------------------------
MaxHandle == 4      \* timeout handles the host hands out in one behaviour
MaxEls    == 1      \* DOM elements that can be put under the timer's control

Els == 1..MaxEls

\* ------------------------------------------------------------------------
\* JavaScript values
\* ------------------------------------------------------------------------
Null     == 0 - 1   \* the null fbFramerate of the Viewport defaults
NoHandle == 0       \* TransitionInterval.timeout : null
NullEvent == "null" \* support.transitionEndEvent : null

Framerates   == {120}         \* the Viewport default
FbFramerates == {Null, 30}

\* ------------------------------------------------------------------------
\* Capability detection (jcparallax.detectSupport)
\* ------------------------------------------------------------------------
\* 'Transition ' + jsDomPrefixes.join('Transition ') + 'Transition', split
props == << "Transition", "MozTransition", "OTransition", "WebkitTransition", "msTransition" >>

\* eventNames[ok] + jcparallax.eventNamespace; a key missing from eventNames
\* reads as undefined and concatenates to 'undefined.jcparallax'
eventNames(ok) ==
    CASE ok = "MozTransition"    -> "transitionend.jcparallax"
      [] ok = "OTransition"      -> "oTransitionEnd.jcparallax"
      [] ok = "WebkitTransition" -> "webkitTransitionEnd.jcparallax"
      [] ok = "msTransition"     -> "MSTransitionEnd.jcparallax"
      [] OTHER                   -> "undefined.jcparallax"

\* ok is "false" or the name of the detected style property
returnSupport(ok, bgOk, tsOk) ==
    [ transitions           |-> ok # "false",
      backgroundTransitions |-> bgOk,
      textShadowTransitions |-> tsOk,
      transitionEndEvent    |-> IF ok # "false" THEN eventNames(ok) ELSE NullEvent ]

\* the first entry of props that the style object of the host defines
FirstProp(style) ==
    IF \E i \in 1..Len(props) : props[i] \in style
    THEN props[CHOOSE i \in 1..Len(props) :
                  /\ props[i] \in style
                  /\ \A j \in 1..(i-1) : props[j] \notin style]
    ELSE "false"

detectSupport(h) ==
    IF h.msie
    THEN returnSupport("false", FALSE, FALSE)
    ELSE returnSupport(FirstProp(h.style), ~h.opera, ~h.opera)

\* The hosts: $.browser flags, the transition properties of the style
\* object, and the type of the event the host dispatches when a
\* transition ends ("none": it dispatches no such event).
Hosts ==
    { [msie |-> TRUE,  opera |-> FALSE, style |-> {},                   fires |-> "none"],
      [msie |-> FALSE, opera |-> FALSE, style |-> {},                   fires |-> "none"],
      [msie |-> FALSE, opera |-> FALSE, style |-> {"WebkitTransition"}, fires |-> "webkitTransitionEnd"],
      [msie |-> FALSE, opera |-> TRUE,  style |-> {"OTransition"},      fires |-> "oTransitionEnd"],
      [msie |-> FALSE, opera |-> FALSE, style |-> {"Transition", "WebkitTransition"},
                                                                        fires |-> "transitionend"] }

\* jQuery strips the namespace of the name a listener was bound with
EventType(name) ==
    CASE name = "transitionend.jcparallax"       -> "transitionend"
      [] name = "oTransitionEnd.jcparallax"      -> "oTransitionEnd"
      [] name = "webkitTransitionEnd.jcparallax" -> "webkitTransitionEnd"
      [] name = "MSTransitionEnd.jcparallax"     -> "MSTransitionEnd"
      [] name = "undefined.jcparallax"           -> "undefined"
      [] OTHER                                   -> "none"

\* jcparallax.support is a plain property of the exported object.  The
\* timer reads .transitions and .transitionEndEvent independently, and its
\* half-enabled branch runs only with a descriptor that reports
\* transitions without an end event: such a descriptor is what a page
\* sets that does not want to rely on the events.
HalfEnabled(d) == [d EXCEPT !.transitionEndEvent = NullEvent]

Descriptors(h) == {detectSupport(h), HalfEnabled(detectSupport(h))}

\* ------------------------------------------------------------------------
\* State
\* ------------------------------------------------------------------------
VARIABLES
    host,               \* the browser
    support,            \* jcparallax.support
    options,            \* Viewport.options (the part that selects the cadence)
    framerate,          \* TransitionInterval.framerate
    fbFramerate,        \* TransitionInterval.fbFramerate
    useFallbackCheckCb, \* TransitionInterval.useFallbackCheckCb
    elements,           \* TransitionInterval.elements
    running,            \* TransitionInterval._running
    timeout,            \* TransitionInterval.timeout
    update,             \* TransitionInterval.update (the closure of the last start)
    frameCount,         \* TransitionInterval.frameCount
    pending,            \* host: timeouts armed and neither fired nor cleared
    nextHandle,         \* host: the handle the next setTimeout returns
    listeners,          \* host: per element, bindings of this.update (cur) and of closures of earlier starts (old)
    cssDuration,        \* host: per element, the transition-duration written by _applyCss (ms, 0 unset)
    ticks,              \* calls of the tick callback so far
    lastCall,           \* the task that ran last
    wasRunning,         \* _running when that task began
    ticked,             \* that task called the tick callback
    lastChanged,        \* what the tick callback returned in that task
    threw,              \* the tick callback, or the input handler of an event, threw in that task
    vp,                 \* Viewport: offsetX, offsetY, sizeX, sizeY, scrollX, scrollY
    layers,             \* Viewport.layers: the Layer objects with their Animators
    layer2,             \* a Layer of the generation that redraws from passed inputs
    inputs,             \* input events between the last two ticks (n, counted up to 2), or since the last tick (used = FALSE)
    args,               \* the page's call new jcparallax.Viewport(el, options, layerOptions) and how it ended
    dom                 \* host: offset(), width(), height() and content size of the viewport element

timerVars == << framerate, fbFramerate, useFallbackCheckCb, elements, running, timeout,
                update, frameCount, pending, nextHandle, listeners, cssDuration, ticks >>
vars == << host, support, options, framerate, fbFramerate, useFallbackCheckCb, elements,
           running, timeout, update, frameCount, pending, nextHandle, listeners,
           cssDuration, ticks, lastCall, wasRunning, ticked, lastChanged, threw,
           vp, layers, layer2, inputs, args, dom >>
viewVars == << vp, layers, layer2, inputs, args, dom >>

\* ------------------------------------------------------------------------
\* Viewport: options and the support check handed to the timer
\* ------------------------------------------------------------------------
AnimHandlers       == {"position", "background", "textShadow"}
TransitionCheckCbs == {"null", "returnsTrue", "returnsFalse"}

\* the options that reach _checkFramerate: every animHandler without a user
\* predicate, and the default animHandler with each user predicate
ViewportOptions ==
    { o \in [animHandler : AnimHandlers, transitionCheckCb : TransitionCheckCbs] :
        o.animHandler = "position" \/ o.transitionCheckCb = "null" }

\* Viewport.prototype._checkFramerate (truthiness of its result)
checkFramerate(sup, opts) ==
    \/ (~sup.backgroundTransitions /\ opts.animHandler = "background")
    \/ (~sup.textShadowTransitions /\ opts.animHandler = "textShadow")
    \/ (opts.transitionCheckCb # "null" /\ ~(opts.transitionCheckCb = "returnsTrue"))

\* The check callbacks a timer can hold: none, the function the Viewport
\* constructor passes, or a predicate of the embedding page.
CheckCbs == {"none", "viewport", "returnsTrue"}

\* Truthiness of useFallbackCheckCb().  The function the Viewport passes is
\*     function() { that._checkFramerate.call(that); }
\* which evaluates _checkFramerate and returns nothing (undefined).
callCheckCb(cb, sup, opts) ==
    CASE cb = "viewport"     -> LET r == checkFramerate(sup, opts) IN FALSE
      [] cb = "returnsTrue"  -> TRUE
      [] OTHER               -> FALSE

\* supported, had start() left support.transitions out of the conjunction
supported_withoutTransitions(sup, cb, opts) ==
    cb = "none" \/ (cb # "none" /\ callCheckCb(cb, sup, opts))

\* var supported = support.transitions && (!cb || (cb && cb()))
supported(sup, cb, opts) ==
    sup.transitions /\ (cb = "none" \/ (cb # "none" /\ callCheckCb(cb, sup, opts)))

\* ------------------------------------------------------------------------
\* TransitionInterval.  The operators take and return the record w of the
\* timer's fields and of the host's timeouts and listeners, so that nested
\* calls (start -> update -> callback -> stop) compose as in the code.
\* ------------------------------------------------------------------------
World ==
    [ framerate |-> framerate, fbFramerate |-> fbFramerate,
      useFallbackCheckCb |-> useFallbackCheckCb, elements |-> elements,
      running |-> running, timeout |-> timeout, update |-> update,
      frameCount |-> frameCount, pending |-> pending, nextHandle |-> nextHandle,
      listeners |-> listeners, cssDuration |-> cssDuration, ticks |-> ticks ]

Commit(w) ==
    /\ framerate' = w.framerate
    /\ fbFramerate' = w.fbFramerate
    /\ useFallbackCheckCb' = w.useFallbackCheckCb
    /\ elements' = w.elements
    /\ running' = w.running
    /\ timeout' = w.timeout
    /\ update' = w.update
    /\ frameCount' = w.frameCount
    /\ pending' = w.pending
    /\ nextHandle' = w.nextHandle
    /\ listeners' = w.listeners
    /\ cssDuration' = w.cssDuration
    /\ ticks' = w.ticks

\* the closures start() can assign to this.update, and the anonymous
\* function the event-driven closure hands to setTimeout
NoUpdate       == [kind |-> "null",  supported |-> FALSE]
EventUpdate    == [kind |-> "event", supported |-> FALSE]
PollUpdate(s)  == [kind |-> "poll",  supported |-> s]
Failsafe       == [kind |-> "failsafe", supported |-> FALSE]

\* setTimeout(fn, delay): the handle returned is w.nextHandle
setTimeout(w, fn, delay) ==
    [w EXCEPT !.pending = @ \cup {[id |-> w.nextHandle, fn |-> fn, delay |-> delay]},
              !.nextHandle = @ + 1]

\* clearTimeout(h): null and handles of fired timeouts clear nothing
clearTimeout(w, h) == [w EXCEPT !.pending = {p \in @ : p.id # h}]

\* this.elements.on(event, this.update) for a closure just created: the
\* bindings of the closure it replaces are no longer bindings of this.update
on(w) ==
    [w EXCEPT !.listeners = [e \in DOMAIN w.listeners |->
        [cur |-> IF e \in w.elements THEN 1 ELSE 0,
         old |-> @[e].old + @[e].cur]]]

\* this.elements.off(event, this.update)
off(w) ==
    [w EXCEPT !.listeners = [e \in DOMAIN w.listeners |->
        IF e \in w.elements THEN [@[e] EXCEPT !.cur = 0] ELSE @[e]]]

stop(w, sup) ==
    IF w.running
    THEN LET w1 == IF sup.transitionEndEvent # NullEvent
                   THEN off(w)
                   ELSE [clearTimeout(w, w.timeout) EXCEPT !.timeout = NoHandle]
         IN [w1 EXCEPT !.running = FALSE]
    ELSE w

\* that.callback.call(that): the tick.  Its result is the argument changed
\* of the closures below; cbStops: the callback calls stop() on its timer.
callback(w, sup, cbStops) ==
    LET w1 == [w EXCEPT !.ticks = @ + 1]
    IN IF cbStops THEN stop(w1, sup) ELSE w1

\* FailsafeDelay, had both branches of update armed the same delay
FailsafeDelay_sameDelay(w, changed) == w.framerate

\* delay of the failsafe: framerate * 2 after a change, framerate otherwise
FailsafeDelay(w, changed) == IF changed THEN w.framerate * 2 ELSE w.framerate

\* updateEvent, had the no-movement branch cleared the failsafe without
\* arming the next one
updateEvent_noRecheck(w, sup, changed, cbStops) ==
    LET w1 == callback(w, sup, cbStops)
        w2 == clearTimeout(w1, w1.timeout)
        w3 == [setTimeout(w2, Failsafe, FailsafeDelay(w2, changed))
                  EXCEPT !.timeout = w2.nextHandle]
    IN IF changed THEN [w3 EXCEPT !.frameCount = @ + 1]
                  ELSE [w2 EXCEPT !.timeout = NoHandle]

\* this.update of the event-driven mode
updateEvent(w, sup, changed, cbStops) ==
    LET w1 == callback(w, sup, cbStops)
        w2 == clearTimeout(w1, w1.timeout)
        w3 == [setTimeout(w2, Failsafe, FailsafeDelay(w2, changed))
                  EXCEPT !.timeout = w2.nextHandle]
    IN IF changed THEN [w3 EXCEPT !.frameCount = @ + 1] ELSE w3

\* supported ? that.framerate : that.fbFramerate
PollDelay(w, s) == IF s THEN w.framerate ELSE w.fbFramerate

\* updatePoll, had it counted no frame
updatePoll_noCount(w, sup, s, cbStops) ==
    LET w1 == callback(w, sup, cbStops)
    IN [setTimeout(w1, w1.update, PollDelay(w1, s))
           EXCEPT !.timeout = w1.nextHandle]

\* this.update of the polling modes; s is the closure's captured `supported`
updatePoll(w, sup, s, cbStops) ==
    LET w1 == callback(w, sup, cbStops)
        w2 == [setTimeout(w1, w1.update, PollDelay(w1, s))
                  EXCEPT !.timeout = w1.nextHandle]
    IN [w2 EXCEPT !.frameCount = @ + 1]

\* start() past its guard
startStopped(w, sup, opts, changed, cbStops) ==
    IF sup.transitionEndEvent # NullEvent
    THEN LET w1 == [w EXCEPT !.update = EventUpdate]
             w2 == [on(w1) EXCEPT !.running = TRUE]
         IN updateEvent(w2, sup, changed, cbStops)
    ELSE LET s  == supported(sup, w.useFallbackCheckCb, opts)
             w1 == [w EXCEPT !.update = PollUpdate(s)]
             w2 == [setTimeout(w1, w1.update, PollDelay(w1, s))
                       EXCEPT !.timeout = w1.nextHandle, !.running = TRUE]
         IN updatePoll(w2, sup, s, cbStops)

\* start, had it lacked the "ignore if already running" guard
start_unguarded(w, sup, opts, changed, cbStops) ==
    startStopped(w, sup, opts, changed, cbStops)

start(w, sup, opts, changed, cbStops) ==
    IF w.running THEN w ELSE startStopped(w, sup, opts, changed, cbStops)

\* _applyCss: transition-duration = framerate / 1000 + 's' on every element
applyCss(w) ==
    [w EXCEPT !.cssDuration = [e \in DOMAIN w.cssDuration |-> IF e \in w.elements THEN w.framerate ELSE @[e]]]

setFramerates(w, cssFramerate, fallbackFramerate, extraCssAnimCheckCb) ==
    applyCss([w EXCEPT !.framerate = cssFramerate,
                       !.fbFramerate = fallbackFramerate,
                       !.useFallbackCheckCb = extraCssAnimCheckCb])

\* addElements(els): an array goes to pushStack, whose result is dropped;
\* a jQuery collection is added to this.elements
addElements(w, els, isArray) ==
    applyCss(IF isArray THEN w ELSE [w EXCEPT !.elements = @ \cup els])

\* A timer on its own has no Viewport around it: no geometry, no Layer.
NoViewport == [offsetX |-> 0, offsetY |-> 0, sizeX |-> 0, sizeY |-> 0]
NoLayer    == [animHandler |-> "none"]
NoInputs   == [n |-> 0, used |-> TRUE]
NoArgs     == [result |-> "none", selector |-> "none", config |-> 0, override |-> 0]

\* ------------------------------------------------------------------------
\* Initial state: new jcparallax.TransitionInterval(cb, options.framerate,
\* options.fbFramerate, function() {...}) as the Viewport constructor calls it
\* ------------------------------------------------------------------------
Init ==
    /\ host \in Hosts
    /\ support \in Descriptors(host)
    /\ options \in ViewportOptions
    /\ framerate \in Framerates
    /\ fbFramerate \in FbFramerates
    /\ useFallbackCheckCb = "viewport"
    /\ elements = {}
    /\ running = FALSE
    /\ timeout = NoHandle
    /\ update = NoUpdate
    /\ frameCount = 0
    /\ pending = {}
    /\ nextHandle = 1
    /\ listeners = [e \in Els |-> [cur |-> 0, old |-> 0]]
    /\ cssDuration = [e \in Els |-> 0]
    /\ ticks = 0
    /\ lastCall = "new"
    /\ wasRunning = FALSE
    /\ ticked = FALSE
    /\ lastChanged = FALSE
    /\ threw = FALSE
    /\ vp = NoViewport
    /\ layers = << >>
    /\ layer2 = NoLayer
    /\ inputs = NoInputs
    /\ args = NoArgs
    /\ dom = NoViewport

\* ------------------------------------------------------------------------
\* Actions
\* ------------------------------------------------------------------------
Fixed == UNCHANGED << host, support, options >> /\ UNCHANGED viewVars

\* timer.start()
Start ==
    \E changed \in BOOLEAN, cbStops \in BOOLEAN :
        /\ running \/ nextHandle + 1 <= MaxHandle
        /\ running => (~changed /\ ~cbStops)
        /\ Commit(start(World, support, options, changed, cbStops))
        /\ lastCall' = "start"
        /\ wasRunning' = running
        /\ ticked' = (ticks' # ticks)
        /\ lastChanged' = changed
        /\ threw' = FALSE
        /\ Fixed

\* timer.stop()
Stop ==
    /\ Commit(stop(World, support))
    /\ lastCall' = "stop"
    /\ wasRunning' = running
    /\ ticked' = FALSE
    /\ lastChanged' = FALSE
    /\ threw' = FALSE
    /\ Fixed

\* a pending timeout fires: the host forgets it, then runs its function
FireTimeout ==
    \E p \in pending, changed \in BOOLEAN, cbStops \in BOOLEAN :
        /\ nextHandle <= MaxHandle
        /\ LET w0 == [World EXCEPT !.pending = @ \ {p}]
           IN IF p.fn.kind = "failsafe"
              THEN \* that.timeout = null; that.update();
                   Commit(updateEvent([w0 EXCEPT !.timeout = NoHandle], support, changed, cbStops))
              ELSE Commit(updatePoll(w0, support, p.fn.supported, cbStops))
        /\ lastCall' = "timeout"
        /\ wasRunning' = running
        /\ ticked' = TRUE
        /\ lastChanged' = changed
        /\ threw' = FALSE
        /\ Fixed

\* the host dispatches a transition-end event on element e to a listener
\* the timer has bound there
CompletionEvent ==
    \E e \in Els, changed \in BOOLEAN, cbStops \in BOOLEAN :
        /\ nextHandle <= MaxHandle
        /\ listeners[e].cur + listeners[e].old > 0
        /\ EventType(support.transitionEndEvent) = host.fires
        /\ Commit(updateEvent(World, support, changed, cbStops))
        /\ lastCall' = "event"
        /\ wasRunning' = running
        /\ ticked' = TRUE
        /\ lastChanged' = changed
        /\ threw' = FALSE
        /\ Fixed

\* timer.setFramerates(...)
SetFramerates ==
    \E f \in Framerates, fb \in FbFramerates, cb \in CheckCbs :
        /\ Commit(setFramerates(World, f, fb, cb))
        /\ lastCall' = "setFramerates"
        /\ wasRunning' = running
        /\ ticked' = FALSE
        /\ lastChanged' = FALSE
        /\ threw' = FALSE
        /\ Fixed

\* timer.addElements(els)
AddElements ==
    \E els \in SUBSET Els, isArray \in BOOLEAN :
        /\ els # {}
        /\ Commit(addElements(World, els, isArray))
        /\ lastCall' = "addElements"
        /\ wasRunning' = running
        /\ ticked' = FALSE
        /\ lastChanged' = FALSE
        /\ threw' = FALSE
        /\ Fixed

Next ==
    \/ Start
    \/ Stop
    \/ FireTimeout
    \/ CompletionEvent
    \/ SetFramerates
    \/ AddElements

Spec == Init /\ [][Next]_vars

\* The event-driven timer of a Viewport with the default options, under the
\* host's scheduling: a timeout that is pending does fire.  (The options
\* are read by _checkFramerate only, which the event-driven branch of
\* start() never calls.)
InitEventDriven ==
    /\ Init
    /\ support.transitionEndEvent # NullEvent
    /\ options = [animHandler |-> "position", transitionCheckCb |-> "null"]

FairSpec == InitEventDriven /\ [][Next]_vars /\ WF_vars(FireTimeout)

TypeOK ==
    /\ running \in BOOLEAN
    /\ timeout \in 0..MaxHandle
    /\ nextHandle \in 1..(MaxHandle + 1)
    /\ frameCount \in 0..MaxHandle
    /\ ticks \in 0..MaxHandle
    /\ elements \subseteq Els
    /\ \A p \in pending : p.id \in 1..MaxHandle

\* ------------------------------------------------------------------------
\* Properties
\* ------------------------------------------------------------------------
\* the event-driven mode (Mode A): start() took its first branch
ModeA == support.transitionEndEvent # NullEvent

Bindings(e) == listeners[e].cur + listeners[e].old
NoListener == \A e \in Els : Bindings(e) = 0

\* the timeouts armed by the step
Armed == pending' \ pending

\* _checkFramerate's first two disjuncts: the descriptor reports no
\* transition of the attribute the configured animHandler writes
AttributeUnsupported ==
    \/ (~support.backgroundTransitions /\ options.animHandler = "background")
    \/ (~support.textShadowTransitions /\ options.animHandler = "textShadow")

\* C1: in the polling modes (B and C), while the timer is stopped the tick
\* callback is not invoked by any task except a start(): no timeout armed
\* before a stop() ticks after it, none is left armed by a stop() made
\* inside the tick callback.
C1_NoTickAfterStopPolling ==
    [][(~ModeA /\ ~running /\ lastCall' # "start") => ticks' = ticks]_vars

\* C2: in the event-driven mode (A), while the timer is stopped the tick
\* callback is not invoked by any task except a start(): neither the
\* failsafe timeout pending at the stop nor a completion event ticks.
C2_NoTickAfterStopEvent ==
    [][(ModeA /\ ~running /\ lastCall' # "start") => ticks' = ticks]_vars

\* C3: between tasks, the timer holds a timeout handle, and a timeout of
\* the timer is pending, if and only if the running flag is true.
C3_HandleIffRunning ==
    /\ (timeout # NoHandle) <=> running
    /\ (pending # {}) <=> running

\* C4: when a start() on a stopped timer has returned with the timer
\* running, exactly one periodic mechanism is active: in Mode A one
\* listener on every managed element and one pending failsafe timeout, in
\* Modes B and C no listener and exactly one pending poll timeout.
C4_OneMechanismAfterStart ==
    (lastCall = "start" /\ ~wasRunning /\ running) =>
        IF ModeA
        THEN /\ \A e \in Els : Bindings(e) = (IF e \in elements THEN 1 ELSE 0)
             /\ Cardinality(pending) = 1
        ELSE /\ NoListener
             /\ Cardinality(pending) = 1

\* C5: start() on a running timer and stop() on a stopped timer change no
\* field of the timer, no listener and no timeout, and run no tick.
C5_NoOps ==
    [][((lastCall' = "start" /\ running) \/ (lastCall' = "stop" /\ ~running))
          => (UNCHANGED timerVars /\ ~ticked')]_vars

C5_Witness ==
    /\ lastCall = "start"
    /\ wasRunning
    /\ running
    /\ pending # {}
    /\ ticks > 0

\* C6: in Mode A, after every tick exactly one timeout is pending, it is
\* the failsafe the timer holds the handle of, and its delay is
\* framerate * 2 if the tick reported a change and framerate if not.
C6_FailsafeDelay ==
    (ModeA /\ ticked) =>
        /\ Cardinality(pending) = 1
        /\ \A p \in pending :
              /\ p.fn.kind = "failsafe"
              /\ p.id = timeout
              /\ p.delay = (IF lastChanged THEN framerate * 2 ELSE framerate)

C6_Witness ==
    /\ ModeA
    /\ ticked
    /\ lastChanged
    /\ lastCall = "event"
    /\ \E p \in pending : p.delay = framerate * 2

\* C7: in Mode A, when timeouts that are pending do fire, every tick of a
\* running timer is followed by a further tick unless the timer is
\* stopped, whether or not a completion event is ever dispatched.
C7_FailsafeKeepsTicking ==
    \A n \in 1..(MaxHandle - 1) :
        (ModeA /\ running /\ ticks = n) ~> (ticks > n \/ ~running)

\* the host never dispatches the event the listener is bound to, and the
\* failsafe has ticked twice in a row on a running timer
C7_Witness ==
    /\ ModeA
    /\ EventType(support.transitionEndEvent) # host.fires
    /\ running
    /\ lastCall = "timeout"
    /\ ~lastChanged
    /\ ticks >= 3

\* C8: when the descriptor reports no transition support, no listener is
\* ever bound and every timeout the timer arms is a poll armed with
\* fbFramerate.
C8_NoSupportPollsAtFallback ==
    [][~support.transitions =>
          /\ \A p \in Armed : p.fn.kind = "poll" /\ p.delay = fbFramerate
          /\ \A e \in Els : listeners'[e].cur + listeners'[e].old = 0]_vars

C8_Witness ==
    /\ ~support.transitions
    /\ lastCall = "timeout"
    /\ running
    /\ useFallbackCheckCb = "none"
    /\ fbFramerate = 30
    /\ \E p \in pending : p.delay = 30 /\ p.id = timeout

\* C9: a Viewport's timer, on a host with transitions but without a
\* completion event, where _checkFramerate finds no reason for the fallback
\* (attribute supported, no veto of the user predicate), arms every poll
\* timeout with framerate.
C9_ViewportPollsAtFramerate ==
    [][(/\ support.transitions
        /\ ~ModeA
        /\ useFallbackCheckCb = "viewport"
        /\ ~checkFramerate(support, options))
          => \A p \in Armed : p.delay = framerate]_vars

\* C10: a Viewport's timer, on a host with transitions where the descriptor
\* reports the configured output attribute (background-position,
\* text-shadow) as not transitionable, binds no completion listener and
\* arms only poll timeouts, with fbFramerate.
C10_UnsupportedAttributeFallsBack ==
    [][(/\ support.transitions
        /\ useFallbackCheckCb = "viewport"
        /\ AttributeUnsupported)
          => /\ \A p \in Armed : p.fn.kind = "poll" /\ p.delay = fbFramerate
             /\ \A e \in Els : listeners'[e].cur + listeners'[e].old = 0]_vars

\* ------------------------------------------------------------------------
\* A tick callback that throws.  The exception leaves this.update at the
\* call of the callback (line 126 of the event-driven closure, line 153 of
\* the polling closure), and leaves start() at its call of this.update().
\* ------------------------------------------------------------------------
updateThrows(w, sup) == callback(w, sup, FALSE)

\* start() on a stopped timer, thrown out of at "run to first frame"
startThrows(w, sup, opts) ==
    IF sup.transitionEndEvent # NullEvent
    THEN LET w1 == [w EXCEPT !.update = EventUpdate]
             w2 == [on(w1) EXCEPT !.running = TRUE]
         IN updateThrows(w2, sup)
    ELSE LET s  == supported(sup, w.useFallbackCheckCb, opts)
             w1 == [w EXCEPT !.update = PollUpdate(s)]
             w2 == [setTimeout(w1, w1.update, PollDelay(w1, s))
                       EXCEPT !.timeout = w1.nextHandle, !.running = TRUE]
         IN updateThrows(w2, sup)

Faulted ==
    /\ ticks < MaxHandle
    /\ wasRunning' = running
    /\ ticked' = TRUE
    /\ lastChanged' = FALSE
    /\ threw' = TRUE
    /\ Fixed

\* timer.start() whose first tick throws
StartThrows ==
    /\ ~running
    /\ nextHandle + 1 <= MaxHandle
    /\ Commit(startThrows(World, support, options))
    /\ lastCall' = "start"
    /\ Faulted

\* a pending timeout fires and the tick it runs throws
FireTimeoutThrows ==
    \E p \in pending :
        /\ nextHandle <= MaxHandle
        /\ LET w0 == [World EXCEPT !.pending = @ \ {p}]
           IN IF p.fn.kind = "failsafe"
              THEN Commit(updateThrows([w0 EXCEPT !.timeout = NoHandle], support))
              ELSE Commit(updateThrows(w0, support))
        /\ lastCall' = "timeout"
        /\ Faulted

\* a completion event is dispatched and the tick it runs throws
CompletionEventThrows ==
    \E e \in Els :
        /\ nextHandle <= MaxHandle
        /\ listeners[e].cur + listeners[e].old > 0
        /\ EventType(support.transitionEndEvent) = host.fires
        /\ Commit(updateThrows(World, support))
        /\ lastCall' = "event"
        /\ Faulted

NextFault ==
    \/ Next
    \/ StartThrows
    \/ FireTimeoutThrows
    \/ CompletionEventThrows

\* the timer of a Viewport with the default options, whose tick callback
\* may throw
InitFault ==
    /\ Init
    /\ options = [animHandler |-> "position", transitionCheckCb |-> "null"]

FaultSpec == InitFault /\ [][NextFault]_vars

\* C12: after a tick whose callback threw, on a timer that is still
\* running, the periodic mechanism is still armed: a failsafe timeout is
\* pending in Mode A, a poll timeout in Modes B and C.
C12_FaultKeepsMechanism ==
    (threw /\ running) =>
        \E p \in pending : p.fn.kind = (IF ModeA THEN "failsafe" ELSE "poll")

Unit == 4

\* Option values: true, null, undefined, a string, a function (by name), a
\* number, an array of numbers ("array") and an array of option values
\* ("list").  $.isArray holds of both kinds of array.
JsTrue      == [t |-> "true",      name |-> "", v |-> << >>]
JsNull      == [t |-> "null",      name |-> "", v |-> << >>]
JsUndefined == [t |-> "undefined", name |-> "", v |-> << >>]
Str(n)      == [t |-> "string",    name |-> n,  v |-> << >>]
Fn(n)       == [t |-> "fn",        name |-> n,  v |-> << >>]
Num(n)      == [t |-> "number",    name |-> "", v |-> << n >>]
Arr(a, b)   == [t |-> "array",     name |-> "", v |-> << a, b >>]
List(s)     == [t |-> "list",      name |-> "", v |-> s]

isArray(x)    == x.t \in {"array", "list"}
isFunction(x) == x.t = "fn"

\* x[i] of the code, i counted from 0
At(x, i) ==
    IF i + 1 > Len(x.v) THEN JsUndefined
    ELSE IF x.t = "array" THEN Num(x.v[i + 1]) ELSE x.v[i + 1]

\* CSS maps: the object literal {}, and $.extend(target, object)
EmptyCss == [k \in {} |-> 0]

\* $.extend, had it kept the keys the target already holds
extend_keepTarget(target, object) == target @@ object

extend(target, object) == object @@ target

\* The endpoints of a range are numbers, the strings el.css() returns
\* for a length ('16px') or undefined.  A length string of n px is carried
\* as PxBase + n, which is above every number of the model; NaN is carried
\* as one value below all of them, and so is undefined, of which
\* parseFloat and the subtraction both make NaN.
PxBase == 1000000
Px(n) == PxBase + n
NaN == 0 - PxBase
isNumber(x) == x # NaN /\ x < PxBase

\* parseFloat(x): the leading number of a string, the number itself
parseFloat(x) ==
    IF x = NaN THEN NaN ELSE IF x >= PxBase THEN x - PxBase ELSE x

\* x - y: ToNumber of '16px' is NaN
Minus(x, y) == IF isNumber(x) /\ isNumber(y) THEN x - y ELSE NaN

\* min + (val * range), val in 1/Unit and the result in 1/Unit
Lerp(min, val, range) ==
    IF isNumber(min) /\ isNumber(range) THEN min * Unit + val * range ELSE NaN

RangeCalculators ==
    { "width", "height", "scrollWidth", "scrollHeight", "fontSize", "lineHeight",
      "opacity", "dataRangeX", "dataRangeY" }

\* rangeCalculators, had height run from 0 like width
rangeCalculators_heightFromZero(name, el, v) ==
    CASE name = "width"        -> << 0, v.sizeX - el.width >>
      [] name = "height"       -> << 0, v.sizeY - el.height >>
      [] name = "scrollWidth"  -> << 0 - (el.scrollWidth - v.sizeX), 0 >>
      [] name = "scrollHeight" -> << 0, el.scrollHeight - v.sizeY >>
      [] name = "fontSize"     -> << 0, Px(el.fontSize) >>
      [] name = "lineHeight"   -> << Px(el.lineHeight), 0 >>
      [] name = "opacity"      -> << 0, el.opacity >>
      [] name = "dataRangeX"   -> el.xrange
      [] name = "dataRangeY"   -> el.yrange

\* jcparallax.Layer.rangeCalculators: the [min, max] a named calculator
\* returns for the element el in the viewport v.  el.xrange and el.yrange
\* are the numbers of the element's data-jcp-xrange and data-jcp-yrange
\* attributes, << >> when the element has no such attribute.
rangeCalculators(name, el, v) ==
    CASE name = "width"        -> << 0, v.sizeX - el.width >>
      [] name = "height"       -> << v.sizeY - el.height, 0 >>
      [] name = "scrollWidth"  -> << 0 - (el.scrollWidth - v.sizeX), 0 >>
      [] name = "scrollHeight" -> << 0, el.scrollHeight - v.sizeY >>
      [] name = "fontSize"     -> << 0, Px(el.fontSize) >>
      [] name = "lineHeight"   -> << Px(el.lineHeight), 0 >>
      [] name = "opacity"      -> << 0, el.opacity >>
      [] name = "dataRangeX"   -> el.xrange
      [] name = "dataRangeY"   -> el.yrange

\* el.data(...) is undefined and .split(',') of it throws a TypeError
calculatorThrows(name, el) ==
    \/ name = "dataRangeX" /\ el.xrange = << >>
    \/ name = "dataRangeY" /\ el.yrange = << >>

\* jcparallax.Animator.animHandlers, and the functions a page passes as
\* options.animHandler.  The built-in padding, margins, stretch, textShadow
\* and opacity handlers have empty bodies: they return undefined, and
\* $.extend(newCss, undefined) adds no key.
Stubs == {"padding", "margins", "stretch", "textShadow", "opacity"}
AnimHandlerNames == {"position", "background"} \cup Stubs
animHandlers(name, a, xVal, yVal) ==
    CASE name = "position" ->
            ("left" :> Lerp(a.minX, xVal, a.rangeX)) @@
            ("top"  :> Lerp(a.minY, yVal, a.rangeY))
      [] name = "background" ->
            ("background-position" :>
                << Lerp(a.minX, xVal, a.rangeX), Lerp(a.minY, yVal, a.rangeY) >>)
      [] name = "fn:opacity" ->
            ("opacity" :> Lerp(a.minY, yVal, a.rangeY))
      [] name \in Stubs -> EmptyCss

\* the range refreshCoords reads its two endpoints from: what the
\* calculator returns, the array of the options, or a value that is
\* neither (true, a number), whose [0] and [1] are undefined
rangeOf(r, el, v) ==
    CASE isFunction(r) -> rangeCalculators(r.name, el, v)
      [] r.t = "array" -> r.v
      [] OTHER         -> << NaN, NaN >>

\* refreshCoords throws a TypeError: the range is undefined or null, of
\* which [0] cannot be read, or its calculator throws
refreshCoordsThrows(o, el) ==
    \E r \in {o.movementRangeX, o.movementRangeY} :
        \/ r.t \in {"undefined", "null"}
        \/ isFunction(r) /\ calculatorThrows(r.name, el)

\* Animator.prototype.refreshCoords, had rangeX been the end of the range
refreshCoords_rangeIsMax(a, el, v) ==
    LET xRange == rangeOf(a.options.movementRangeX, el, v)
        yRange == rangeOf(a.options.movementRangeY, el, v)
    IN [a EXCEPT !.minX = parseFloat(xRange[1]), !.rangeX = parseFloat(xRange[2]),
                 !.minY = parseFloat(yRange[1]), !.rangeY = parseFloat(yRange[2])]

\* Animator.prototype.refreshCoords
refreshCoords(a, el, v) ==
    LET xRange == rangeOf(a.options.movementRangeX, el, v)
        yRange == rangeOf(a.options.movementRangeY, el, v)
    IN [a EXCEPT !.minX = parseFloat(xRange[1]),
                 !.rangeX = parseFloat(Minus(xRange[2], xRange[1])),
                 !.minY = parseFloat(yRange[1]),
                 !.rangeY = parseFloat(Minus(yRange[2], yRange[1]))]

\* Animator.prototype.bindEvent: eventName += eventNamespace, so that the
\* event bound for a null inputEvent is 'null.jcparallax'.  inputEvent is
\* the type of that name, which is what a dispatched event is matched with.
\* this.inputHandler is a new function at every call: closure counts them,
\* 0 being the null of the prototype, and inputHandler names what the
\* function calls.
InputHandlerNames == {"mousemove", "scroll", "click", "mousemove_xcentered"}
bindEvent(a, eventName, handler) ==
    [a EXCEPT !.inputEvent = IF eventName.t = "string" THEN eventName.name ELSE eventName.t,
              !.inputHandler = IF handler.t = "string" /\ handler.name \notin InputHandlerNames
                               THEN "undefined"
                               ELSE handler.name,
              !.closure = @ + 1]

\* the listener this.viewport.element.on(eventName, this.inputHandler)
\* attaches for the Animator a, the j-th of the i-th Layer (owner = << i, j >>)
listener(owner, a) ==
    [event |-> a.inputEvent, handler |-> a.inputHandler, owner |-> owner, gen |-> a.closure]

\* element.off(eventName, fn) on the listeners bound, in the order they
\* were attached
elementOff(bound, l) == SelectSeq(bound, LAMBDA x : x # l)

\* bindEvent, had it attached the new listener without detaching the old
bindEventOn_noDetach(bound, owner, a, eventName, handler) ==
    Append(bound, listener(owner, bindEvent(a, eventName, handler)))

\* what Animator.prototype.bindEvent does to the listeners of the viewport
\* element: the old function is detached if there is one (this.inputEvent
\* is a non-empty string from the first call on), the new one attached
bindEventOn(bound, owner, a, eventName, handler) ==
    LET detached == IF a.closure # 0 THEN elementOff(bound, listener(owner, a)) ELSE bound
    IN Append(detached, listener(owner, bindEvent(a, eventName, handler)))

\* the listeners the constructors of the first n Animators as, those of
\* the i-th Layer, have attached
RECURSIVE animatorListeners(_, _, _)
animatorListeners(i, as, n) ==
    IF n = 0 THEN << >>
    ELSE Append(animatorListeners(i, as, n - 1), listener(<< i, n >>, as[n]))

\* the listeners the constructors of the first n Layers of ls have attached
RECURSIVE layerListeners(_, _)
layerListeners(ls, n) ==
    IF n = 0 THEN << >>
    ELSE layerListeners(ls, n - 1) \o animatorListeners(n, ls[n].animators, Len(ls[n].animators))

Attached(ls) == layerListeners(ls, Len(ls))

AnimatorDefaults ==
    [ movementRangeX |-> JsTrue, movementRangeY |-> JsTrue,
      inputEvent |-> Str("mousemove"), inputHandler |-> Str("mousemove"),
      animHandler |-> Str("position") ]

\* $.extend(true, defaults, options): undefined values are not copied
extendDefaults(defaults, o) ==
    [k \in DOMAIN defaults |-> IF o[k].t = "undefined" THEN defaults[k] ELSE o[k]]

\* the constructor's inference of the range calculators of a built-in
\* animHandler.  && binds tighter than ||.
inferRanges(o) ==
    IF o.movementRangeX.t = "true"
         \/ (o.movementRangeY.t = "true" /\ ~isFunction(o.animHandler))
    THEN CASE o.animHandler.name \in {"position", "padding", "margins", "background", "stretch"}
                /\ o.animHandler.t = "string" ->
                 [o EXCEPT !.movementRangeX = Fn("width"), !.movementRangeY = Fn("height")]
           [] o.animHandler.name = "opacity" /\ o.animHandler.t = "string" ->
                 [o EXCEPT !.movementRangeX = Arr(0, 0), !.movementRangeY = Fn("opacity")]
           [] OTHER -> o
    ELSE o

\* typeof r == 'string': r = jcparallax.Layer.rangeCalculators[r]
lookupRange(r) ==
    IF r.t = "string"
    THEN (IF r.name \in RangeCalculators THEN Fn(r.name) ELSE JsUndefined)
    ELSE r

\* new jcparallax.Animator(layer, options)
Animator(el, v, opts) ==
    LET o1 == inferRanges(extendDefaults(AnimatorDefaults, opts))
        o2 == [o1 EXCEPT !.movementRangeX = lookupRange(@),
                         !.movementRangeY = lookupRange(@)]
        a  == [ options |-> o2,
                animHandler |-> IF isFunction(o2.animHandler)
                                THEN "fn:" \o o2.animHandler.name
                                ELSE IF o2.animHandler.name \in AnimHandlerNames
                                THEN o2.animHandler.name
                                ELSE "undefined",
                minX |-> 0, rangeX |-> 0, minY |-> 0, rangeY |-> 0,
                lastSampledX |-> 0, lastSampledY |-> 0,
                lastProcessedX |-> 0, lastProcessedY |-> 0,
                inputEvent |-> "null", inputHandler |-> "null", closure |-> 0 ]
    IN bindEvent(refreshCoords(a, el, v), o2.inputEvent, o2.inputHandler)

\* new jcparallax.Animator(layer, options) throws: refreshCoords does
AnimatorThrows(el, opts) ==
    LET o1 == inferRanges(extendDefaults(AnimatorDefaults, opts))
    IN refreshCoordsThrows([o1 EXCEPT !.movementRangeX = lookupRange(@),
                                      !.movementRangeY = lookupRange(@)], el)

\* updateLastSamplePos, had it marked the sample as processed
updateLastSamplePos_processed(a, xVal, yVal) ==
    [a EXCEPT !.lastSampledX = xVal, !.lastSampledY = yVal,
              !.lastProcessedX = xVal, !.lastProcessedY = yVal]

\* Animator.prototype.updateLastSamplePos
updateLastSamplePos(a, xVal, yVal) ==
    [a EXCEPT !.lastSampledX = xVal, !.lastSampledY = yVal]

\* makeCss, had it skipped the comparison with the last processed input
makeCss_noDedup(a) ==
    LET xVal == a.lastSampledX
        yVal == a.lastSampledY
    IN [ a     |-> [a EXCEPT !.lastProcessedX = xVal, !.lastProcessedY = yVal],
         css   |-> IF a.animHandler = "undefined" THEN EmptyCss
                   ELSE animHandlers(a.animHandler, a, xVal, yVal),
         threw |-> a.animHandler = "undefined" ]

\* Animator.prototype.makeCss(), called without arguments by Layer.redraw.
\* threw: this.animHandler is undefined and .call of it throws a TypeError,
\* after lastProcessedX and lastProcessedY were assigned.
makeCss(a) ==
    LET xVal == a.lastSampledX
        yVal == a.lastSampledY
    IN IF xVal = a.lastProcessedX /\ yVal = a.lastProcessedY
       THEN [ a |-> a, css |-> EmptyCss, threw |-> FALSE ]
       ELSE [ a     |-> [a EXCEPT !.lastProcessedX = xVal, !.lastProcessedY = yVal],
              css   |-> IF a.animHandler = "undefined" THEN EmptyCss
                        ELSE animHandlers(a.animHandler, a, xVal, yVal),
              threw |-> a.animHandler = "undefined" ]

\* ------------------------------------------------------------------------
\* Layer
\* ------------------------------------------------------------------------
ArrayLength(x) == IF isArray(x) THEN Len(x.v) ELSE 0
Max2(m, n) == IF m >= n THEN m ELSE n

\* Layer.prototype._createAnimators: one Animator per index of the longest
\* array, an option that is not an array is shared by all of them
\* _createAnimators, had it made as many Animators as the shortest array holds
animatorCount_shortest(o) ==
    LET lens == { Len(o[key].v) : key \in { q \in DOMAIN o : isArray(o[q]) } }
    IN IF lens = {} THEN 0
       ELSE CHOOSE n \in lens : \A m \in lens : n <= m

\* maxLen of _createAnimators
animatorCount(o) ==
    Max2(ArrayLength(o.animHandler), Max2(ArrayLength(o.inputHandler),
    Max2(ArrayLength(o.movementRangeX), Max2(ArrayLength(o.movementRangeY),
         ArrayLength(o.inputEvent)))))

\* the options _createAnimators passes to its Animator of index i, i
\* counted from 0
animatorOptions(o, i) ==
    LET pick(x) == IF isArray(x) THEN At(x, i) ELSE x
    IN [ animHandler    |-> pick(o.animHandler),
         inputEvent     |-> pick(o.inputEvent),
         inputHandler   |-> pick(o.inputHandler),
         movementRangeX |-> pick(o.movementRangeX),
         movementRangeY |-> pick(o.movementRangeY) ]

createAnimators(el, v, o) ==
    [ i \in 1..animatorCount(o) |-> Animator(el, v, animatorOptions(o, i - 1)) ]

\* the test of the Layer constructor: is any of the five options an array
anyArray(o) ==
    \/ isArray(o.animHandler) \/ isArray(o.inputHandler)
    \/ isArray(o.movementRangeX) \/ isArray(o.movementRangeY)
    \/ isArray(o.inputEvent)

\* new jcparallax.Layer(viewport, el, options).  css is the element's style
\* as written through element.css(), wrote the number of element.css()
\* calls of the current task.
Layer(v, el, o) ==
    [ element      |-> el,
      options      |-> o,
      animators    |-> IF anyArray(o)
                       THEN createAnimators(el, v, o)
                       ELSE << Animator(el, v, o) >>,
      prevFrameCss |-> EmptyCss,
      css          |-> EmptyCss,
      wrote        |-> 0 ]

\* new jcparallax.Layer(viewport, el, options) throws: the constructor of
\* one of its Animators does
LayerThrows(el, o) ==
    IF anyArray(o)
    THEN \E i \in 1..animatorCount(o) : AnimatorThrows(el, animatorOptions(o, i - 1))
    ELSE AnimatorThrows(el, o)

\* Layer.prototype._cssChanged: prevFrameCss[i] != newCss[i], which holds
\* of NaN and NaN.  The value of background-position is a string.
cssChanged(prevFrameCss, newCss) ==
    \E i \in DOMAIN newCss :
        \/ i \notin DOMAIN prevFrameCss
        \/ prevFrameCss[i] # newCss[i]
        \/ i # "background-position" /\ newCss[i] = NaN

\* element.css(newCss): jQuery sets every property of the map but those
\* whose value is NaN
elementCss(css, newCss) ==
    [ k \in { i \in DOMAIN newCss : i = "background-position" \/ newCss[i] # NaN }
        |-> newCss[k] ] @@ css

\* the loop of Layer.redraw over the first n animators, left by the first
\* makeCss that throws
RECURSIVE collectCss(_, _)
collectCss(as, n) ==
    IF n = 0
    THEN [ animators |-> as, css |-> EmptyCss, threw |-> FALSE ]
    ELSE LET r == collectCss(as, n - 1)
             m == makeCss(as[n])
         IN IF r.threw THEN r
            ELSE [ animators |-> [r.animators EXCEPT ![n] = m.a],
                   css       |-> extend(r.css, m.css),
                   threw     |-> m.threw ]

\* Layer.prototype.redraw
redraw(l) ==
    LET r  == collectCss(l.animators, Len(l.animators))
        l1 == [l EXCEPT !.animators = r.animators]
    IN IF ~r.threw /\ cssChanged(l1.prevFrameCss, r.css)
       THEN [ layer   |-> [l1 EXCEPT !.prevFrameCss = r.css,
                                     !.css = elementCss(@, r.css),
                                     !.wrote = @ + 1],
              changed |-> TRUE, threw |-> FALSE ]
       ELSE [ layer |-> l1, changed |-> FALSE, threw |-> r.threw ]

\* ------------------------------------------------------------------------
\* Viewport
\* ------------------------------------------------------------------------
\* the loop of Viewport.updateLayers over the first n layers, left by the
\* first redraw that throws
RECURSIVE redrawLayers(_, _)
redrawLayers(ls, n) ==
    IF n = 0
    THEN [ layers |-> ls, changed |-> FALSE, threw |-> FALSE ]
    ELSE LET r == redrawLayers(ls, n - 1)
             d == redraw(ls[n])
         IN IF r.threw THEN r
            ELSE [ layers  |-> [r.layers EXCEPT ![n] = d.layer],
                   changed |-> r.changed \/ d.changed,
                   threw   |-> d.threw ]

\* Viewport.prototype.updateLayers, the tick callback of the Viewport's timer
updateLayers(ls) == redrawLayers(ls, Len(ls))

\* n / d of two numbers, in units of 1/Unit: a division by zero gives NaN
\* for 0 / 0 and an infinity otherwise
Infinity == 2 * PxBase
Div(n, d) ==
    IF d # 0 THEN (n * Unit) \div d
    ELSE IF n = 0 THEN NaN
    ELSE IF n > 0 THEN Infinity ELSE 0 - Infinity

\* x * 2 of a quotient
Twice(x) == IF x = NaN \/ x = Infinity \/ x = 0 - Infinity THEN x ELSE x * 2

\* Math.min(1, x) of a quotient
Min1(x) == IF x # NaN /\ x > Unit THEN Unit ELSE x

\* jcparallax.Viewport.inputHandlers, called with the Animator as this
inputHandlers(name, a, v, evt) ==
    LET xPos  == evt.pageX - v.offsetX
        yPos  == evt.pageY - v.offsetY
        halfX == v.sizeX \div 2
        xFold == IF xPos > halfX THEN halfX - (xPos - halfX) ELSE xPos
    IN CASE name \in {"mousemove", "click"} ->
            updateLastSamplePos(a, Div(xPos, v.sizeX), Div(yPos, v.sizeY))
         [] name = "scroll" ->
            updateLastSamplePos(a,
                IF v.scrollX # 0 THEN Min1(Div(evt.scrollLeft, v.scrollX)) ELSE 0,
                IF v.scrollY # 0 THEN Min1(Div(evt.scrollTop, v.scrollY)) ELSE 0)
         [] name = "mousemove_xcentered" ->
            updateLastSamplePos(a, Twice(Div(xFold, v.sizeX)), Div(yPos, v.sizeY))

\* the defaults of the Viewport constructor that reach its Layers
ViewportDefaults ==
    [ movementRangeX |-> JsTrue, movementRangeY |-> JsTrue,
      inputEvent |-> JsNull, inputHandler |-> Str("mousemove"),
      animHandler |-> Str("position") ]

\* The options of the Viewports of the model:
\*   1  the defaults;
\*   2  { inputEvent: 'mousemove' };
\*   3  position and a function that writes opacity, driven by different events:
\*      { animHandler: ['position', fn], inputEvent: ['mousemove', 'click'],
\*        movementRangeX: ['width', [0, 0]], movementRangeY: ['height', [0, 1]] };
\*   4  { animHandler: ['position', 'opacity'], inputEvent: ['mousemove', 'click'] };
\*   5  { movementRangeX: [10, 20], inputEvent: 'mousemove' };
\*   6  { movementRangeX: [[10, 20]], inputEvent: 'mousemove' };
\*   7  { movementRangeX: 'bogus', movementRangeY: 'height', inputEvent: 'mousemove' };
\*   8  { animHandler: 'bogus', inputEvent: 'mousemove' };
\*   9  { inputHandler: 'bogus', inputEvent: 'mousemove' };
\*  10  { movementRangeX: 'fontSize', movementRangeY: 'lineHeight', inputEvent: 'mousemove' };
\*  11  { movementRangeX: 'dataRangeX', movementRangeY: 'dataRangeY', inputEvent: 'mousemove' };
\*  12  two position animators driven by the same event:
\*      { animHandler: ['position', 'position'], inputEvent: 'mousemove',
\*        movementRangeX: [[0, 10], [10, 20]], movementRangeY: [[0, 0], [0, 4]] };
\*  13  { animHandler: ['position', 'background'], inputEvent: ['mousemove'] };
\*  14  one animator with a calculator for one axis and a literal for the other:
\*      { movementRangeX: 'width', movementRangeY: [[0, 4]], inputEvent: 'mousemove' };
\*  15  { inputHandler: 'scroll', inputEvent: 'scroll' };
\*  16  { inputHandler: 'mousemove_xcentered', inputEvent: 'mousemove' };
\*  17  { inputHandler: 'click', inputEvent: 'click' }.
NConfigs == 4
PageConfigs == {1, 2, 5, 6, 7, 8, 9, 10, 11, 12, 13}
ViewportConfig(n) ==
    CASE n = 1 -> ViewportDefaults
      [] n = 2 -> [ViewportDefaults EXCEPT !.inputEvent = Str("mousemove")]
      [] n = 3 -> [ViewportDefaults EXCEPT
                      !.animHandler    = List(<< Str("position"), Fn("opacity") >>),
                      !.inputEvent     = List(<< Str("mousemove"), Str("click") >>),
                      !.movementRangeX = List(<< Str("width"), Arr(0, 0) >>),
                      !.movementRangeY = List(<< Str("height"), Arr(0, 1) >>)]
      [] n = 4 -> [ViewportDefaults EXCEPT
                      !.animHandler = List(<< Str("position"), Str("opacity") >>),
                      !.inputEvent  = List(<< Str("mousemove"), Str("click") >>)]
      [] n = 5 -> [ViewportDefaults EXCEPT !.movementRangeX = Arr(10, 20),
                                           !.inputEvent = Str("mousemove")]
      [] n = 6 -> [ViewportDefaults EXCEPT !.movementRangeX = List(<< Arr(10, 20) >>),
                                           !.inputEvent = Str("mousemove")]
      [] n = 7 -> [ViewportDefaults EXCEPT !.movementRangeX = Str("bogus"),
                                           !.movementRangeY = Str("height"),
                                           !.inputEvent = Str("mousemove")]
      [] n = 8 -> [ViewportDefaults EXCEPT !.animHandler = Str("bogus"),
                                           !.inputEvent = Str("mousemove")]
      [] n = 9 -> [ViewportDefaults EXCEPT !.inputHandler = Str("bogus"),
                                           !.inputEvent = Str("mousemove")]
      [] n = 10 -> [ViewportDefaults EXCEPT !.movementRangeX = Str("fontSize"),
                                            !.movementRangeY = Str("lineHeight"),
                                            !.inputEvent = Str("mousemove")]
      [] n = 11 -> [ViewportDefaults EXCEPT !.movementRangeX = Str("dataRangeX"),
                                            !.movementRangeY = Str("dataRangeY"),
                                            !.inputEvent = Str("mousemove")]
      [] n = 12 -> [ViewportDefaults EXCEPT
                      !.animHandler    = List(<< Str("position"), Str("position") >>),
                      !.inputEvent     = Str("mousemove"),
                      !.movementRangeX = List(<< Arr(0, 10), Arr(10, 20) >>),
                      !.movementRangeY = List(<< Arr(0, 0), Arr(0, 4) >>)]
      [] n = 13 -> [ViewportDefaults EXCEPT
                      !.animHandler = List(<< Str("position"), Str("background") >>),
                      !.inputEvent  = List(<< Str("mousemove") >>)]
      [] n = 14 -> [ViewportDefaults EXCEPT !.movementRangeX = Str("width"),
                                            !.movementRangeY = List(<< Arr(0, 4) >>),
                                            !.inputEvent = Str("mousemove")]
      [] n = 15 -> [ViewportDefaults EXCEPT !.inputHandler = Str("scroll"),
                                            !.inputEvent = Str("scroll")]
      [] n = 16 -> [ViewportDefaults EXCEPT !.inputHandler = Str("mousemove_xcentered"),
                                            !.inputEvent = Str("mousemove")]
      [] n = 17 -> [ViewportDefaults EXCEPT !.inputHandler = Str("click"),
                                            !.inputEvent = Str("click")]

\* the viewport element of the model: offset(), width(), height(), the size
\* of its content and the input listeners bound to it
ViewportElement ==
    [offsetX |-> 10, offsetY |-> 20, sizeX |-> 400, sizeY |-> 300,
     contentX |-> 600, contentY |-> 300, bound |-> << >>]

\* element.scrollWidth and .scrollHeight: the content, or the box where the
\* content is smaller
scrollWidth(d)  == Max2(d.contentX, d.sizeX)
scrollHeight(d) == Max2(d.contentY, d.sizeY)

\* the coordinates Viewport.prototype.refreshCoords stores for an element
\* with the geometry d
coords(d) ==
    [offsetX |-> d.offsetX, offsetY |-> d.offsetY,
     sizeX |-> d.sizeX, sizeY |-> d.sizeY,
     scrollX |-> scrollWidth(d) - d.sizeX, scrollY |-> scrollHeight(d) - d.sizeY]

\* Viewport.prototype.refreshCoords on the viewport element of the model
ViewportCoords == coords(ViewportElement)

\* the layer elements of the model: width(), height() and css('opacity')
LayerElements ==
    { [width |-> 100, height |-> 100, opacity |-> 1],
      [width |-> 500, height |-> 400, opacity |-> 1] }

\* the elements of the page that options.layerSelector matches in the
\* viewport element, in document order.  The second has no data-jcp-xrange
\* and no data-jcp-yrange attribute.
PageLayers ==
    << [ width |-> 100, height |-> 100, opacity |-> 1, scrollWidth |-> 100,
         scrollHeight |-> 100, fontSize |-> 16, lineHeight |-> 20,
         xrange |-> << 10, 20 >>, yrange |-> << 0, 10 >> ],
       [ width |-> 500, height |-> 400, opacity |-> 1, scrollWidth |-> 500,
         scrollHeight |-> 400, fontSize |-> 16, lineHeight |-> 20,
         xrange |-> << >>, yrange |-> << >> ] >>

\* The layerOptions of the Viewports of the model, an entry without a key
\* carrying undefined for it:
\*   0  none (<< >> stands for undefined);
\*   1  [undefined, { animHandler: 'background' }];
\*   2  [{ inputEvent: 'click' }].
NoOverride == [k \in DOMAIN ViewportDefaults |-> JsUndefined]
LayerOptions(n) ==
    CASE n = 0 -> << >>
      [] n = 1 -> << NoOverride, [NoOverride EXCEPT !.animHandler = Str("background")] >>
      [] n = 2 -> << [NoOverride EXCEPT !.inputEvent = Str("click")] >>
Overrides == {0, 1, 2}

\* addLayers, had it merged the overrides into the Viewport's own options
\* object instead of a copy
layerOpts_shared(o, layerOptions, i) ==
    LET merged[n \in 0..i] ==
            IF n = 0 THEN o
            ELSE IF n <= Len(layerOptions)
            THEN extendDefaults(merged[n - 1], layerOptions[n])
            ELSE merged[n - 1]
    IN merged[i]

\* the options addLayers builds for its layer of index i (i counted from
\* 1): opts = $.extend({}, that.options), then $.extend(opts,
\* that.layerOptions[i]) if there is such an entry
layerOpts(o, layerOptions, i) ==
    IF i <= Len(layerOptions) THEN extendDefaults(o, layerOptions[i]) ELSE o

\* Viewport.prototype.addLayers(layerEls): the Layers in the order of the
\* elements.  The first Layer constructor that throws ends the loop; the
\* Layers built before it stay in this.layers.
addLayers(v, layerEls, o, layerOptions) ==
    LET throws(i) == LayerThrows(layerEls[i], layerOpts(o, layerOptions, i))
        done == { i \in DOMAIN layerEls : \A j \in 1..i : ~throws(j) }
    IN [ layers |-> [ i \in 1..Cardinality(done) |->
                        Layer(v, layerEls[i], layerOpts(o, layerOptions, i)) ],
         threw  |-> \E i \in DOMAIN layerEls : throws(i) ]

\* the input samples the events of the model carry, in 1/Unit
SampleSteps == { << 0, 0 >>, << 2, 2 >>, << 4, 0 >> }

\* the events at those fractions of the viewport element d: the pointer
\* in its box, and what scrollLeft() and scrollTop() answer
PointerEvents(d) ==
    { [ pageX |-> d.offsetX + (k[1] * d.sizeX) \div Unit,
        pageY |-> d.offsetY + (k[2] * d.sizeY) \div Unit,
        scrollLeft |-> (k[1] * (scrollWidth(d) - d.sizeX)) \div Unit,
        scrollTop  |-> (k[2] * (scrollHeight(d) - d.sizeY)) \div Unit ] : k \in SampleSteps }

\* ------------------------------------------------------------------------
\* A Viewport with its timer.  The initial state is the constructor before
\* its last statement: the timer is built with updateLayers as its tick
\* callback, the layers are created and their elements handed to the
\* timer.  The last statement, this.timer.start(), is the first step.
\* ------------------------------------------------------------------------
ViewHosts == { h \in Hosts : h.msie \/ h.style = {"WebkitTransition"} }

\* a Viewport of one of the configurations ns
InitViewOf(ns) ==
    /\ host \in ViewHosts
    /\ support = detectSupport(host)
    /\ options = [animHandler |-> "position", transitionCheckCb |-> "null"]
    /\ framerate \in Framerates
    /\ fbFramerate = Null
    /\ useFallbackCheckCb = "viewport"
    /\ elements = {1}
    /\ running = FALSE
    /\ timeout = NoHandle
    /\ update = NoUpdate
    /\ frameCount = 0
    /\ pending = {}
    /\ nextHandle = 1
    /\ listeners = [e \in Els |-> [cur |-> 0, old |-> 0]]
    /\ cssDuration = [e \in Els |-> IF e = 1 THEN framerate ELSE 0]
    /\ ticks = 0
    /\ lastCall = "new"
    /\ wasRunning = FALSE
    /\ ticked = FALSE
    /\ lastChanged = FALSE
    /\ threw = FALSE
    /\ vp = ViewportCoords
    /\ \E n \in ns, el \in LayerElements :
          /\ layers = addLayers(ViewportCoords, << el >>, ViewportConfig(n), << >>).layers
          /\ args = [result |-> "ok", selector |-> "given", config |-> n, override |-> 0]
    /\ layer2 = NoLayer
    /\ inputs = NoInputs
    /\ dom = [ViewportElement EXCEPT !.bound = Attached(layers)]

InitView == InitViewOf(1..NConfigs)

\* the constructor has returned
Constructed == lastCall # "new"

\* a task begins: no element.css() call yet
Fresh(ls) == [i \in DOMAIN ls |-> [ls[i] EXCEPT !.wrote = 0]]

ViewFixed == UNCHANGED << host, support, options, vp, layer2, args, dom >>

\* what a task of the timer does to the layers: the tick callback, if the
\* task called it, is updateLayers
Ticked(r) ==
    /\ layers' = IF ticks' # ticks THEN r.layers ELSE Fresh(layers)
    /\ inputs' = IF ticks' # ticks
                 THEN (IF inputs.used THEN NoInputs ELSE [inputs EXCEPT !.used = TRUE])
                 ELSE inputs
    /\ wasRunning' = running
    /\ ticked' = (ticks' # ticks)
    /\ lastChanged' = (ticks' # ticks /\ r.changed)
    /\ threw' = (ticks' # ticks /\ r.threw)
    /\ r.threw => ticks < MaxHandle
    /\ ViewFixed

\* viewport.timer.start()
ViewStart ==
    LET r == updateLayers(Fresh(layers))
    IN /\ running \/ nextHandle + 1 <= MaxHandle
       /\ IF r.threw /\ ~running
          THEN Commit(startThrows(World, support, options))
          ELSE Commit(start(World, support, options, r.changed, FALSE))
       /\ lastCall' = "start"
       /\ Ticked(r)

\* viewport.timer.stop()
ViewStop ==
    /\ Constructed
    /\ Commit(stop(World, support))
    /\ lastCall' = "stop"
    /\ Ticked(updateLayers(Fresh(layers)))

\* a pending timeout of the Viewport's timer fires
ViewFireTimeout ==
    \E p \in pending :
        LET r  == updateLayers(Fresh(layers))
            w0 == [World EXCEPT !.pending = @ \ {p}]
        IN /\ nextHandle <= MaxHandle
           /\ IF r.threw
              THEN Commit(updateThrows(w0, support))
              ELSE IF p.fn.kind = "failsafe"
              THEN Commit(updateEvent([w0 EXCEPT !.timeout = NoHandle], support, r.changed, FALSE))
              ELSE Commit(updatePoll(w0, support, p.fn.supported, FALSE))
           /\ lastCall' = "timeout"
           /\ Ticked(r)

\* a transition of the layer element ends and the host dispatches the event
ViewCompletionEvent ==
    \E e \in DOMAIN listeners :
        LET r == updateLayers(Fresh(layers))
        IN /\ nextHandle <= MaxHandle
           /\ listeners[e].cur + listeners[e].old > 0
           /\ EventType(support.transitionEndEvent) = host.fires
           /\ IF r.threw
              THEN Commit(updateThrows(World, support))
              ELSE Commit(updateEvent(World, support, r.changed, FALSE))
           /\ lastCall' = "event"
           /\ Ticked(r)

\* the host dispatches an input event on the viewport element: every
\* Animator bound to its type runs its input handler
InputEvent ==
    \E type \in {"mousemove", "click", "scroll"}, evt \in PointerEvents(dom) :
        LET Matches(k) == dom.bound[k].event = type
            Throws(k)  == Matches(k) /\ dom.bound[k].handler = "undefined"
            \* the listeners run in the order they were bound; the first
            \* that throws ends the dispatch
            Runs(k)    == Matches(k) /\ ~\E k2 \in 1..k : Throws(k2)
            \* the listeners that run for the j-th Animator of the i-th Layer
            Of(i, j)   == { k \in DOMAIN dom.bound : Runs(k) /\ dom.bound[k].owner = << i, j >> }
            \* each handler overwrites both components of the sample: the
            \* last listener that runs for an Animator decides it
            Last(i, j) == CHOOSE k \in Of(i, j) : \A k2 \in Of(i, j) : k2 <= k
        IN /\ Constructed
           /\ \E k \in DOMAIN dom.bound : Matches(k)
           /\ layers' = [i \in DOMAIN layers |->
                 [Fresh(layers)[i] EXCEPT !.animators = [j \in DOMAIN @ |->
                     IF Of(i, j) # {}
                     THEN inputHandlers(dom.bound[Last(i, j)].handler, @[j], vp, evt)
                     ELSE @[j]]]]
           /\ inputs' = [n |-> IF inputs.used THEN 1 ELSE (IF inputs.n = 1 THEN 2 ELSE inputs.n),
                          used |-> FALSE]
           /\ lastCall' = "input"
           /\ wasRunning' = running
           /\ ticked' = FALSE
           /\ lastChanged' = FALSE
           /\ threw' = \E k \in DOMAIN dom.bound : Throws(k)
           /\ UNCHANGED timerVars
           /\ ViewFixed

NextView ==
    \/ ViewStart
    \/ ViewStop
    \/ ViewFireTimeout
    \/ ViewCompletionEvent
    \/ InputEvent

ViewSpec == InitView /\ [][NextView]_vars

\* ------------------------------------------------------------------------
\* A Viewport whose element is resized by the page, and whose
\* refreshCoords() the page calls.
\* ------------------------------------------------------------------------
\* the options the Layer l passed to the constructor of its Animator j
Passed(l, j) ==
    IF anyArray(l.options) THEN animatorOptions(l.options, j - 1) ELSE l.options

\* the sizes the page gives the viewport element
ViewportSizes == { << 400, 300 >>, << 800, 600 >> }

\* Layer.refreshCoords, had it marked the samples of its animators as not
\* yet processed
layerRefreshCoords_invalidate(l, v) ==
    [l EXCEPT !.animators = [j \in DOMAIN @ |->
        [refreshCoords(@[j], l.element, v) EXCEPT !.lastProcessedX = Null,
                                                  !.lastProcessedY = Null]]]

\* Layer.prototype.refreshCoords, for a Layer of the Viewport with the
\* cached coordinates v
layerRefreshCoords(l, v) ==
    [l EXCEPT !.animators = [j \in DOMAIN @ |-> refreshCoords(@[j], l.element, v)]]

\* Viewport.refreshCoords, had it refreshed its layers before its own
\* coordinates
viewportRefreshCoords_layersFirst(v, d, ls) ==
    [ vp     |-> coords(d),
      layers |-> [i \in DOMAIN ls |-> layerRefreshCoords(ls[i], v)] ]

\* Viewport.prototype.refreshCoords on a Viewport with the cached
\* coordinates v and the layers ls, whose element has the geometry d
viewportRefreshCoords(v, d, ls) ==
    LET v1 == coords(d)
    IN [ vp     |-> v1,
         layers |-> [i \in DOMAIN ls |-> layerRefreshCoords(ls[i], v1)] ]

\* the page resizes the viewport element to one of sizes
ResizeTo(sizes) ==
    \E size \in sizes :
        /\ Constructed
        /\ dom' = [dom EXCEPT !.sizeX = size[1], !.sizeY = size[2]]
        /\ dom' # dom
        /\ layers' = Fresh(layers)
        /\ lastCall' = "resize"
        /\ wasRunning' = running
        /\ ticked' = FALSE
        /\ lastChanged' = FALSE
        /\ threw' = FALSE
        /\ UNCHANGED timerVars
        /\ UNCHANGED << host, support, options, vp, layer2, args, inputs >>

Resize == ResizeTo(ViewportSizes)

\* viewport.refreshCoords(), called by the page.  lastCall tells a call
\* that follows another one immediately from a first one.
RefreshCoords ==
    LET r == viewportRefreshCoords(vp, dom, Fresh(layers))
    IN /\ Constructed
       /\ vp' = r.vp
       /\ layers' = r.layers
       /\ lastCall' = IF lastCall \in {"refreshCoords", "refreshCoords again"}
                      THEN "refreshCoords again"
                      ELSE "refreshCoords"
       /\ wasRunning' = running
       /\ ticked' = FALSE
       /\ lastChanged' = FALSE
       /\ threw' = FALSE
       /\ UNCHANGED timerVars
       /\ UNCHANGED << host, support, options, layer2, args, inputs, dom >>

\* the page never stops the timer
NextGeom ==
    \/ ViewStart
    \/ ViewFireTimeout
    \/ InputEvent
    \/ Resize
    \/ RefreshCoords

\* the Viewports of configurations 2, 6 and 14, on the host without transitions
GeomConfigs == {2, 6, 14}
InitGeom ==
    /\ InitViewOf(GeomConfigs)
    /\ host.msie

GeomSpec == InitGeom /\ [][NextGeom]_vars

\* ------------------------------------------------------------------------
\* The builtin input handlers: a Viewport driven by one of them, whose
\* element the page resizes, down to nothing, and re-measures
\* ------------------------------------------------------------------------
HandlerConfigs == {2, 15, 16, 17}
HandlerSizes == { << 0, 0 >>, << 400, 300 >>, << 800, 600 >> }

HandlerResize == ResizeTo(HandlerSizes)

InitHandlers == InitViewOf(HandlerConfigs) /\ host.msie

NextHandlers ==
    \/ ViewStart
    \/ InputEvent
    \/ HandlerResize
    \/ RefreshCoords

HandlerSpec == InitHandlers /\ [][NextHandlers]_vars

\* ------------------------------------------------------------------------
\* Rebinding: a Viewport whose page calls bindEvent on its Animators
\* ------------------------------------------------------------------------
MaxBinds == 3       \* bindEvent calls on one Animator, its constructor's included

BindEventNames == { Str("mousemove"), Str("click") }
BindHandlers   == { Str("mousemove"), Str("click"), Str("bogus") }

\* animator.bindEvent(eventName, handler), called by the page
BindEvent ==
    \E i \in DOMAIN layers : \E j \in DOMAIN layers[i].animators :
        \E eventName \in BindEventNames, handler \in BindHandlers :
            LET a == layers[i].animators[j]
            IN /\ Constructed
               /\ a.closure < MaxBinds
               /\ layers' = [Fresh(layers) EXCEPT
                                ![i].animators[j] = bindEvent(@, eventName, handler)]
               /\ dom' = [dom EXCEPT !.bound = bindEventOn(@, << i, j >>, a, eventName, handler)]
               /\ lastCall' = "bindEvent"
               /\ wasRunning' = running
               /\ ticked' = FALSE
               /\ lastChanged' = FALSE
               /\ threw' = FALSE
               /\ UNCHANGED timerVars
               /\ UNCHANGED << host, support, options, vp, layer2, args, inputs >>

BindConfigs == {2, 4}

InitBind == InitViewOf(BindConfigs) /\ host.msie

NextBind ==
    \/ ViewStart
    \/ InputEvent
    \/ BindEvent

BindSpec == InitBind /\ [][NextBind]_vars

\* ------------------------------------------------------------------------
\* A page that constructs a Viewport: new jcparallax.Viewport(el, options,
\* layerOptions) is one task of the page, from refreshCoords() to
\* this.timer.start().  selector tells what the page passed: options with
\* a layerSelector ("given"), options without one ("omitted"), or no
\* options at all ("noOptions").
\* ------------------------------------------------------------------------
InitPage ==
    /\ host \in ViewHosts
    /\ support = detectSupport(host)
    /\ options = [animHandler |-> "position", transitionCheckCb |-> "null"]
    /\ framerate \in Framerates
    /\ fbFramerate = Null
    /\ useFallbackCheckCb = "viewport"
    /\ elements = {}
    /\ running = FALSE
    /\ timeout = NoHandle
    /\ update = NoUpdate
    /\ frameCount = 0
    /\ pending = {}
    /\ nextHandle = 1
    /\ listeners = [e \in DOMAIN PageLayers |-> [cur |-> 0, old |-> 0]]
    /\ cssDuration = [e \in DOMAIN PageLayers |-> 0]
    /\ ticks = 0
    /\ lastCall = "new"
    /\ wasRunning = FALSE
    /\ ticked = FALSE
    /\ lastChanged = FALSE
    /\ threw = FALSE
    /\ vp = NoViewport
    /\ layers = << >>
    /\ layer2 = NoLayer
    /\ inputs = NoInputs
    /\ args = NoArgs
    /\ dom = ViewportElement

\* new jcparallax.Viewport(el, options, layerOptions)
NewViewport ==
    \E sel \in {"given", "omitted", "noOptions"}, n \in PageConfigs, k \in Overrides :
        LET \* options.layerSelector.jquery reads the argument, not this.options
            noSelector == sel # "given"
            r  == addLayers(coords(dom), PageLayers, ViewportConfig(n), LayerOptions(k))
            w1 == addElements(World, DOMAIN PageLayers, FALSE)
            t  == updateLayers(r.layers)
            failed == noSelector \/ r.threw \/ t.threw
        IN /\ args.result = "none"
           /\ noSelector => (n = 1 /\ k = 0)
           /\ vp' = coords(dom)
           /\ layers' = IF noSelector THEN << >> ELSE IF r.threw THEN r.layers ELSE t.layers
           /\ dom' = [dom EXCEPT !.bound = @ \o Attached(layers')]
           /\ IF noSelector \/ r.threw
              THEN Commit(World)
              ELSE IF t.threw
              THEN Commit(startThrows(w1, support, options))
              ELSE Commit(start(w1, support, options, t.changed, FALSE))
           /\ args' = [result |-> IF failed THEN "threw" ELSE "ok",
                        selector |-> sel, config |-> n, override |-> k]
           /\ lastCall' = "construct"
           /\ wasRunning' = FALSE
           /\ ticked' = (ticks' # ticks)
           /\ lastChanged' = (ticks' # ticks /\ t.changed)
           /\ threw' = failed
           /\ inputs' = NoInputs
           /\ UNCHANGED << host, support, options, layer2 >>

\* the tasks of the page after the constructor: those of the Viewport it
\* returned, or, if it threw, the events of the listeners it had bound
PageStart           == args.result = "ok" /\ ViewStart
PageStop            == args.result = "ok" /\ ViewStop
PageFireTimeout     == args.result = "ok" /\ ViewFireTimeout
PageCompletionEvent == args.result = "ok" /\ ViewCompletionEvent
PageInputEvent      == args.result # "none" /\ InputEvent

NextPage ==
    \/ NewViewport
    \/ PageStart
    \/ PageStop
    \/ PageFireTimeout
    \/ PageCompletionEvent
    \/ PageInputEvent

PageSpec == InitPage /\ [][NextPage]_vars

\* ------------------------------------------------------------------------
\* Properties of the Viewport, its Layers and their Animators
\* ------------------------------------------------------------------------
TickCalls == {"start", "timeout", "event"}

\* what the animator a writes for its current sample
Output(a) == animHandlers(a.animHandler, a, a.lastSampledX, a.lastSampledY)

\* the surface of layer l holds css
Holds(l, css) == \A k \in DOMAIN css : k \in DOMAIN l.css /\ l.css[k] = css[k]

\* C11: start() on a stopped timer runs exactly one tick before it
\* returns, and when it has returned the surface of every layer holds the
\* output of each of its animators for the current input sample, also when
\* the start() is the first call on a new Viewport and the sample is the
\* initial (0, 0).
C11_StartDrawsCurrentSample ==
    [][(lastCall' = "start" /\ ~running) =>
          /\ ticks' = ticks + 1
          /\ \A i \in DOMAIN layers' : \A j \in DOMAIN layers'[i].animators :
                Holds(layers'[i], Output(layers'[i].animators[j]))]_vars

\* the layers as an input event may leave them: it assigns lastSampledX
\* and lastSampledY of animators and nothing else
SampledOnly(ls, ms) ==
    /\ DOMAIN ms = DOMAIN ls
    /\ \A i \in DOMAIN ls :
          /\ ms[i].css = ls[i].css
          /\ ms[i].prevFrameCss = ls[i].prevFrameCss
          /\ ms[i].wrote = 0
          /\ DOMAIN ms[i].animators = DOMAIN ls[i].animators
          /\ \A j \in DOMAIN ls[i].animators :
                [ms[i].animators[j] EXCEPT !.lastSampledX = 0, !.lastSampledY = 0]
                    = [ls[i].animators[j] EXCEPT !.lastSampledX = 0, !.lastSampledY = 0]

\* C14: an input event changes nothing but the last sampled value of the
\* animators bound to it: it writes no surface and leaves lastProcessed,
\* prevFrameCss and the timer as they are.  A tick writes each layer at
\* most once, processes the most recent sample of every animator, and what
\* it writes for an animator whose sample it processes is the output for
\* that sample, however many input events came since the tick before.
C14_InputOnlySamples ==
    [][/\ lastCall' = "input" => (SampledOnly(layers, layers') /\ UNCHANGED timerVars)
       /\ ticked' =>
             \A i \in DOMAIN layers : \A j \in DOMAIN layers[i].animators :
                LET a == layers[i].animators[j]
                    b == layers'[i].animators[j]
                IN /\ layers'[i].wrote <= 1
                   /\ b.lastProcessedX = a.lastSampledX
                   /\ b.lastProcessedY = a.lastSampledY
                   /\ (a.lastSampledX # a.lastProcessedX \/ a.lastSampledY # a.lastProcessedY)
                         => Holds(layers'[i], Output(a))]_vars

\* two input events and then a tick, which wrote the layer once, for the
\* second sample
C14_Witness ==
    /\ lastCall \in TickCalls
    /\ ticked
    /\ inputs = [n |-> 2, used |-> TRUE]
    /\ layers[1].wrote = 1
    /\ layers[1].animators[1].lastProcessedX = Unit
    /\ "left" \in DOMAIN layers[1].css
    /\ layers[1].css["left"] =
          Unit * (layers[1].animators[1].minX + layers[1].animators[1].rangeX)

\* every animator's sample is the one it processed last
NoNewSample(ls) ==
    \A i \in DOMAIN ls : \A j \in DOMAIN ls[i].animators :
        /\ ls[i].animators[j].lastSampledX = ls[i].animators[j].lastProcessedX
        /\ ls[i].animators[j].lastSampledY = ls[i].animators[j].lastProcessedY

\* C15: a tick that finds every sample equal to the sample processed last
\* reports no change and writes no surface, whether a timeout, a start()
\* or, in Mode A, a completion event runs it.
C15_SameSampleNoWrite ==
    [][(ticks' # ticks /\ NoNewSample(layers)) =>
          /\ ~lastChanged'
          /\ \A i \in DOMAIN layers :
                /\ layers'[i].wrote = 0
                /\ layers'[i].css = layers[i].css
                /\ layers'[i].prevFrameCss = layers[i].prevFrameCss]_vars

\* a completion event ticked with no input event since the tick before, on
\* a layer that was drawn before
C15_Witness ==
    /\ ModeA
    /\ lastCall = "event"
    /\ ticked
    /\ inputs = NoInputs
    /\ ~lastChanged
    /\ layers[1].css # EmptyCss
    /\ layers[1].wrote = 0

\* C17: between tasks the snapshot prevFrameCss of every layer is the
\* attribute values its surface holds from the layer's writes, also when
\* the layer has several animators whose inputs change at different ticks.
C17_SnapshotIsSurface ==
    \A i \in DOMAIN layers : layers[i].prevFrameCss = layers[i].css

\* a layer with an animator that writes left and an animator that writes
\* opacity (the built-in handler of that name, or a function of the page)
LeftAndOpacity(l) ==
    /\ Len(l.animators) = 2
    /\ l.animators[1].animHandler = "position"
    /\ l.animators[2].animHandler \in {"opacity", "fn:opacity"}

\* C18: when a layer with one animator for left and one for opacity is
\* redrawn with the sample of the first unchanged and the sample of the
\* second changed, the redraw reports a change, writes the surface exactly
\* once, and what it writes has both keys.
C18_MergedOutputHasBothKeys ==
    [][\A i \in DOMAIN layers :
          (/\ ticks' # ticks
           /\ LeftAndOpacity(layers[i])
           /\ NoNewSample(<< [layers[i] EXCEPT !.animators = << @[1] >>] >>)
           /\ ~NoNewSample(<< [layers[i] EXCEPT !.animators = << @[2] >>] >>))
             => /\ lastChanged'
                /\ layers'[i].wrote = 1
                /\ {"left", "opacity"} \subseteq DOMAIN layers'[i].prevFrameCss]_vars

\* the [min, max] the range option r of an animator resolves to
Resolved(r, el, v) == IF isFunction(r) THEN rangeCalculators(r.name, el, v) ELSE r.v

C20_WidthHeightRanges ==
    \A i \in DOMAIN layers : \A j \in DOMAIN layers[i].animators :
        LET a  == layers[i].animators[j]
            el == layers[i].element
        IN /\ (isFunction(a.options.movementRangeX) /\ a.options.movementRangeX.name = "width")
                 => (a.minX = 0 /\ a.minX + a.rangeX = vp.sizeX - el.width)
           /\ (isFunction(a.options.movementRangeY) /\ a.options.movementRangeY.name = "height")
                 => (a.minY = vp.sizeY - el.height /\ a.minY + a.rangeY = 0)
           /\ (/\ vp.sizeX = 400 /\ vp.sizeY = 300 /\ el.width = 100 /\ el.height = 100
               /\ a.animHandler = "position")
                 => /\ << a.minX, a.minX + a.rangeX >> = << 0, 300 >>
                    /\ << a.minY, a.minY + a.rangeY >> = << 200, 0 >>
                    /\ animHandlers(a.animHandler, a, Unit \div 2, Unit \div 2)
                          = ("left" :> 150 * Unit) @@ ("top" :> 100 * Unit)

\* the 100 x 100 layer of the 400 x 300 viewport, drawn for (0.5, 0.5)
C20_Witness ==
    /\ layers # << >>
    /\ vp.sizeX = 400 /\ vp.sizeY = 300
    /\ layers[1].element.width = 100 /\ layers[1].element.height = 100
    /\ layers[1].animators[1].options.movementRangeX.name = "width"
    /\ layers[1].animators[1].options.movementRangeY.name = "height"
    /\ layers[1].animators[1].lastProcessedX * 2 = Unit
    /\ layers[1].animators[1].lastProcessedY * 2 = Unit
    /\ "left" \in DOMAIN layers[1].css
    /\ layers[1].css["left"] = 150 * Unit
    /\ layers[1].css["top"] = 100 * Unit

\* ------------------------------------------------------------------------
\* The Layer of the generation in which Viewport.updateLayers(xVal, yVal)
\* passes the inputs to Layer.redraw(xVal, yVal), and the Layer itself
\* holds the range and the animation handler.
\* ------------------------------------------------------------------------
\* jcparallax.Layer.animHandlers of that generation
layerAnimHandlers(name, l, xVal, yVal) ==
    CASE name = "position" ->
            ("left" :> l.minX * Unit + xVal * l.rangeX) @@
            ("top"  :> l.minY * Unit + yVal * l.rangeY)
      [] name = "background" ->
            ("background-position" :>
                << l.minX * Unit + xVal * l.rangeX, l.minY * Unit + yVal * l.rangeY >>)
      [] name \in Stubs -> EmptyCss

\* Layer.prototype._updateMovementRange for ranges given as arrays
updateMovementRange(l, xRange, yRange) ==
    [l EXCEPT !.minX = xRange[1], !.rangeX = xRange[2] - xRange[1],
              !.minY = yRange[1], !.rangeY = yRange[2] - yRange[1]]

\* new jcparallax.Layer(viewport, el, options) of that generation.  xVal,
\* yVal, again and changed record the last call of redraw: its arguments,
\* whether they were the arguments of the call before, and its result.
Layer2(animHandler, xRange, yRange) ==
    updateMovementRange(
        [ animHandler |-> animHandler,
          minX |-> 0, rangeX |-> 0, minY |-> 0, rangeY |-> 0,
          prevFrameCss |-> EmptyCss, css |-> EmptyCss, wrote |-> 0,
          xVal |-> Null, yVal |-> Null, again |-> FALSE, changed |-> FALSE ],
        xRange, yRange)

\* redraw(xVal, yVal), had it written without keeping the snapshot
redrawXY_noSnapshot(l, xVal, yVal) ==
    LET newCss == layerAnimHandlers(l.animHandler, l, xVal, yVal)
    IN IF cssChanged(l.prevFrameCss, newCss)
       THEN [l EXCEPT !.css = extend(@, newCss), !.wrote = 1, !.changed = TRUE]
       ELSE [l EXCEPT !.wrote = 0, !.changed = FALSE]

\* Layer.prototype.redraw(xVal, yVal)
redrawXY(l, xVal, yVal) ==
    LET newCss == layerAnimHandlers(l.animHandler, l, xVal, yVal)
    IN IF cssChanged(l.prevFrameCss, newCss)
       THEN [l EXCEPT !.prevFrameCss = newCss, !.css = extend(@, newCss),
                      !.wrote = 1, !.changed = TRUE]
       ELSE [l EXCEPT !.wrote = 0, !.changed = FALSE]

\* the ranges and handlers of the Layers of the model
Ranges2   == { << 0, 300 >>, << 200, 0 >>, << 0, 0 >>, << 10, 20 >> }
Handlers2 == {"position", "background", "opacity"}

Init2 ==
    /\ host \in Hosts
    /\ host.msie
    /\ support = detectSupport(host)
    /\ options = [animHandler |-> "position", transitionCheckCb |-> "null"]
    /\ framerate \in Framerates
    /\ fbFramerate = Null
    /\ useFallbackCheckCb = "viewport"
    /\ elements = {}
    /\ running = FALSE
    /\ timeout = NoHandle
    /\ update = NoUpdate
    /\ frameCount = 0
    /\ pending = {}
    /\ nextHandle = 1
    /\ listeners = [e \in Els |-> [cur |-> 0, old |-> 0]]
    /\ cssDuration = [e \in Els |-> 0]
    /\ ticks = 0
    /\ lastCall = "new"
    /\ wasRunning = FALSE
    /\ ticked = FALSE
    /\ lastChanged = FALSE
    /\ threw = FALSE
    /\ vp = NoViewport
    /\ layers = << >>
    /\ inputs = NoInputs
    /\ args = NoArgs
    /\ dom = NoViewport
    /\ \E h \in Handlers2, xRange \in Ranges2, yRange \in Ranges2 :
          layer2 = Layer2(h, xRange, yRange)

\* layer.redraw(xVal, yVal)
Redraw2 ==
    \E xVal \in 0..Unit, yVal \in 0..Unit :
        /\ layer2' = [redrawXY(layer2, xVal, yVal) EXCEPT
                         !.xVal = xVal, !.yVal = yVal,
                         !.again = (xVal = layer2.xVal /\ yVal = layer2.yVal)]
        /\ lastCall' = "redraw"
        /\ UNCHANGED << host, support, options, vp, layers, inputs, wasRunning, ticked,
                        lastChanged, threw, args, dom >>
        /\ UNCHANGED timerVars

Next2 == Redraw2

Layer2Spec == Init2 /\ [][Next2]_vars

C25_FallbackCadenceIsSet ==
    [][\A p \in Armed : p.delay # Null]_vars

\* C29: at most one timeout armed by the timer is pending at any time,
\* poll or failsafe.
C29_OneTimeoutPending ==
    Cardinality(pending) <= 1

\* C30: every redraw leaves the snapshot prevFrameCss of its layer equal
\* to the merged output it computed, also when it found no change and
\* wrote nothing.
C30_SnapshotAlwaysUpdated ==
    [][ticks' # ticks =>
          \A i \in DOMAIN layers :
             layers'[i].prevFrameCss =
                collectCss(Fresh(layers)[i].animators, Len(layers[i].animators)).css]_vars

\* ------------------------------------------------------------------------
\* Properties of the construction of a Viewport
\* ------------------------------------------------------------------------
\* C24: every option is optional.  A Viewport constructed with options
\* that leave layerSelector out, or with no options, is constructed: the
\* constructor returns and has made one Layer of every element that the
\* default selector '.jcp-layer' matches.
C24_SelectorIsOptional ==
    args.selector \in {"omitted", "noOptions"} =>
        /\ args.result = "ok"
        /\ Len(layers) = Len(PageLayers)

\* C21: a layer configured with the literal range movementRangeX = [10, 20]
\* and the position transform has a single Animator, whose output for the
\* input x = 0.25 is left = 12.5.
C21_LiteralRangeScenario ==
    \A i \in DOMAIN layers :
        LET o == layers[i].options
        IN (/\ o.movementRangeX.t = "array"
            /\ o.movementRangeX.v = << 10, 20 >>
            /\ o.animHandler.t = "string"
            /\ o.animHandler.name = "position")
           => /\ Len(layers[i].animators) = 1
              /\ animHandlers("position", layers[i].animators[1], 1, 0)["left"] = 50

\* C22: a literal range given to an Animator for one axis is that axis's
\* resolved range, whatever the option of the other axis is: min is its
\* first number and the extent the difference of its numbers.
C22_LiteralRangeKept ==
    \A i \in DOMAIN layers : \A j \in DOMAIN layers[i].animators :
        LET o == Passed(layers[i], j)
            a == layers[i].animators[j]
        IN /\ o.movementRangeX.t = "array" =>
                 /\ a.minX = o.movementRangeX.v[1]
                 /\ a.rangeX = o.movementRangeX.v[2] - o.movementRangeX.v[1]
           /\ o.movementRangeY.t = "array" =>
                 /\ a.minY = o.movementRangeY.v[1]
                 /\ a.rangeY = o.movementRangeY.v[2] - o.movementRangeY.v[1]

\* two option values are the same value
Same(x, y) ==
    /\ x.t = y.t
    /\ x.name = y.name
    /\ isArray(x) => x.v = y.v

\* C26: each effective option of the i-th layer is the value of
\* layerOptions[i] where that entry defines the option and the value of the
\* Viewport's options otherwise; an entry for one layer leaves the options
\* of the other layers the Viewport's.
C26_LayerOverrides ==
    \A i \in DOMAIN layers : \A k \in DOMAIN ViewportDefaults :
        LET lo == LayerOptions(args.override)
        IN Same(layers[i].options[k],
                IF i <= Len(lo) /\ lo[i][k].t # "undefined"
                THEN lo[i][k]
                ELSE ViewportConfig(args.config)[k])

C26_Witness ==
    /\ args.result = "ok"
    /\ args.override = 2
    /\ Len(layers) = 2
    /\ layers[1].options.inputEvent.name = "click"
    /\ layers[2].options.inputEvent.name = "mousemove"
    /\ layers[1].animators[1].inputEvent = "click"
    /\ layers[2].animators[1].inputEvent = "mousemove"

\* the options o name, by a string, a range calculator, an input handler
\* or an animHandler that is not among the built-in ones
NamesUnknown(o) ==
    \/ o.movementRangeX.t = "string" /\ o.movementRangeX.name \notin RangeCalculators
    \/ o.movementRangeY.t = "string" /\ o.movementRangeY.name \notin RangeCalculators
    \/ o.inputHandler.t = "string" /\ o.inputHandler.name \notin InputHandlerNames
    \/ o.animHandler.t = "string" /\ o.animHandler.name \notin AnimHandlerNames

\* C27: a Viewport whose options name an unknown built-in by string, be
\* it a range calculator, an input handler or an animHandler, is not
\* constructed: the constructor throws.
C27_UnknownNameFailsFast ==
    (args.selector = "given" /\ args.result = "ok") =>
        \A i \in DOMAIN PageLayers :
            LET o == layerOpts(ViewportConfig(args.config), LayerOptions(args.override), i)
            IN IF anyArray(o)
               THEN \A j \in 1..animatorCount(o) : ~NamesUnknown(animatorOptions(o, j - 1))
               ELSE ~NamesUnknown(o)

\* the numbers of a CSS map are finite
FiniteCss(css) ==
    \A k \in DOMAIN css :
        IF k = "background-position"
        THEN isNumber(css[k][1]) /\ isNumber(css[k][2])
        ELSE isNumber(css[k])

\* C28: a range calculator whose result has an endpoint that is not a
\* finite number, or that has no result, costs its layer only its
\* movement: the range resolved from a calculator is made of finite
\* numbers, so is every output merged from it, and the Layers of all the
\* elements are constructed.
C28_CalculatorRangesFinite ==
    /\ \A i \in DOMAIN layers :
          /\ \A j \in DOMAIN layers[i].animators :
                LET a == layers[i].animators[j]
                IN /\ isFunction(a.options.movementRangeX) =>
                         isNumber(a.minX) /\ isNumber(a.rangeX)
                   /\ isFunction(a.options.movementRangeY) =>
                         isNumber(a.minY) /\ isNumber(a.rangeY)
          /\ (\A j \in DOMAIN layers[i].animators :
                 /\ isFunction(layers[i].animators[j].options.movementRangeX)
                 /\ isFunction(layers[i].animators[j].options.movementRangeY))
             => FiniteCss(layers[i].prevFrameCss)
    /\ (args.selector = "given" /\ args.config \in {10, 11}) =>
          Len(layers) = Len(PageLayers)

\* ------------------------------------------------------------------------
\* Properties of refreshCoords
\* ------------------------------------------------------------------------
\* the resolved ranges of the layers ls: min and extent per axis of every
\* Animator
Ranges(ls) ==
    [i \in DOMAIN ls |-> [j \in DOMAIN ls[i].animators |->
        << ls[i].animators[j].minX, ls[i].animators[j].rangeX,
           ls[i].animators[j].minY, ls[i].animators[j].rangeY >>]]

\* C23: a call of refreshCoords() that follows another call of it, with
\* no change of geometry in between, leaves the resolved ranges of every
\* layer, and the cached coordinates of the Viewport, as the first call
\* left them.
C23_RefreshCoordsIdempotent ==
    [][(lastCall \in {"refreshCoords", "refreshCoords again"}
          /\ lastCall' = "refreshCoords again")
       => (Ranges(layers') = Ranges(layers) /\ vp' = vp)]_vars

C23_Witness ==
    /\ lastCall = "refreshCoords again"
    /\ vp.sizeX = 800
    /\ layers[1].animators[1].rangeX = 800 - layers[1].element.width
    /\ layers[1].animators[1].minY = 600 - layers[1].element.height

\* ------------------------------------------------------------------------
\* Properties of Layer.redraw and its comparison
\* ------------------------------------------------------------------------
\* some key of next is absent from prev or has another value there
Differs(prev, next) ==
    \E k \in DOMAIN next : k \notin DOMAIN prev \/ prev[k] # next[k]

\* what the Layer l merges from its Animators in a redraw
Merged(l) == collectCss(l.animators, Len(l.animators)).css

\* C32: the comparison of a redraw reports a change, and the layer is
\* written, exactly when some key of the merged output is absent from the
\* snapshot or has a different value there; keys of the snapshot alone and
\* an empty merged output report none.
C32_ChangedIffKeyDiffers ==
    [][(ticks' # ticks /\ ~threw') =>
          \A i \in DOMAIN layers :
             (layers'[i].wrote = 1) <=>
                 Differs(layers[i].prevFrameCss, Merged(Fresh(layers)[i]))]_vars

\* the Animator a is what the constructor makes of the options opts for a
\* layer on the element el: its options after inference and lookup, its
\* animHandler and the input event and handler it is bound with
MadeFrom(a, el, opts) ==
    LET b == Animator(el, vp, opts)
    IN /\ \A key \in DOMAIN b.options : Same(a.options[key], b.options[key])
       /\ a.animHandler = b.animHandler
       /\ a.inputEvent = b.inputEvent
       /\ a.inputHandler = b.inputHandler

SampleProcessed(a) ==
    a.lastSampledX = a.lastProcessedX /\ a.lastSampledY = a.lastProcessedY

\* the call that ran last was viewport.refreshCoords()
RefreshCalls == {"refreshCoords", "refreshCoords again"}

\* C33: Viewport.refreshCoords() resolves, for every Animator of every
\* Layer, each range given by a calculator against the geometry the
\* viewport element has at the call, and leaves each range given by a
\* literal as it was.
C33_RefreshResolvesCalculators ==
    [][lastCall' \in RefreshCalls =>
          \A i \in DOMAIN layers : \A j \in DOMAIN layers[i].animators :
             LET a  == layers[i].animators[j]
                 b  == layers'[i].animators[j]
                 el == layers[i].element
                 xr == rangeCalculators(a.options.movementRangeX.name, el, dom)
                 yr == rangeCalculators(a.options.movementRangeY.name, el, dom)
             IN /\ IF Passed(layers[i], j).movementRangeX.t = "array"
                   THEN b.minX = a.minX /\ b.rangeX = a.rangeX
                   ELSE b.minX = xr[1] /\ b.rangeX = xr[2] - xr[1]
                /\ IF Passed(layers[i], j).movementRangeY.t = "array"
                   THEN b.minY = a.minY /\ b.rangeY = a.rangeY
                   ELSE b.minY = yr[1] /\ b.rangeY = yr[2] - yr[1]]_vars

\* C38: refreshCoords() writes no layer and leaves the last processed
\* samples and the snapshots as they are; the tick that follows it, the
\* input samples being unchanged, reports no change and writes nothing:
\* the surface keeps the output of the old range.
C38_RefreshDoesNotRedraw ==
    [][/\ lastCall' \in RefreshCalls =>
             \A i \in DOMAIN layers :
                /\ layers'[i].wrote = 0
                /\ layers'[i].css = layers[i].css
                /\ layers'[i].prevFrameCss = layers[i].prevFrameCss
                /\ \A j \in DOMAIN layers[i].animators :
                      /\ layers'[i].animators[j].lastProcessedX = layers[i].animators[j].lastProcessedX
                      /\ layers'[i].animators[j].lastProcessedY = layers[i].animators[j].lastProcessedY
       /\ (/\ lastCall \in RefreshCalls
           /\ ticks' # ticks
           /\ \A i \in DOMAIN layers : \A j \in DOMAIN layers[i].animators :
                 /\ SampleProcessed(layers[i].animators[j]))
          => /\ ~lastChanged'
             /\ \A i \in DOMAIN layers :
                   layers'[i].wrote = 0 /\ layers'[i].css = layers[i].css]_vars

C38_Witness ==
    /\ args.config = 2
    /\ lastCall = "timeout"
    /\ layers[1].wrote = 0
    /\ vp.sizeX = 800
    /\ layers[1].animators[1].rangeX = 800 - layers[1].element.width
    /\ layers[1].animators[1].lastProcessedX = 2
    /\ layers[1].animators[1].lastSampledX = 2
    /\ layers[1].css["left"] = 2 * (400 - layers[1].element.width)

InUnit(x) == x # NaN /\ 0 <= x /\ x <= Unit

\* C35: the sample a builtin input handler has recorded has both components
\* within [0, 1], whatever the position of the event and the geometry of
\* the container, a container of no size or no scroll extent included.
C35_SamplesWithinUnit ==
    \A i \in DOMAIN layers : \A j \in DOMAIN layers[i].animators :
        LET a == layers[i].animators[j]
        IN a.inputHandler \in InputHandlerNames
              => (InUnit(a.lastSampledX) /\ InUnit(a.lastSampledY))

\* ------------------------------------------------------------------------
\* Properties of the capability detection
\* ------------------------------------------------------------------------
\* C36: the descriptor detectSupport() returns on a host names no completion
\* event where the host has no transitions, and otherwise the event, under
\* the jcparallax namespace, that the host dispatches when a transition
\* ends, so that a listener bound under that name receives the events.
C36_EventNameIsTheHostsEvent ==
    LET d == detectSupport(host)
    IN support = d =>
          /\ ~d.transitions => d.transitionEndEvent = NullEvent
          /\ d.transitions => EventType(d.transitionEndEvent) = host.fires

\* ------------------------------------------------------------------------
\* Properties of bindEvent
\* ------------------------------------------------------------------------
\* the listeners on the viewport element that the j-th Animator of the i-th
\* Layer has attached
Mine(i, j) == { k \in DOMAIN dom.bound : dom.bound[k].owner = << i, j >> }

\* C37: whatever bindEvent calls an Animator has had, exactly one listener
\* of its own is attached to the viewport element, and it is the one of the
\* latest call: the function this.inputHandler under the name
\* this.inputEvent.  The listeners of the earlier calls are detached.
C37_OneListenerPerAnimator ==
    \A i \in DOMAIN layers : \A j \in DOMAIN layers[i].animators :
        /\ Cardinality(Mine(i, j)) = 1
        /\ \A k \in Mine(i, j) : dom.bound[k] = listener(<< i, j >>, layers[i].animators[j])

\* an Animator bound for the third time, to another event than before,
\* next to an Animator of the same Layer
C37_Witness ==
    /\ lastCall = "bindEvent"
    /\ Len(layers[1].animators) = 2
    /\ layers[1].animators[1].closure = 3
    /\ layers[1].animators[1].inputEvent = "click"
    /\ layers[1].animators[2].closure = 1

====
